---- MODULE Spec2Model ----
(***************************************************************************)
(* A state-machine model of the DQN learning core of FlappyRL:             *)
(*   - rl_dqn::ReplayBuffer   (src/src/rl_dqn/replay_buffer.cpp)           *)
(*   - rl_dqn::Network        (src/src/rl_dqn/network.cpp)                 *)
(*   - rl_dqn::AdamOptimizer  (src/src/rl_dqn/adam.cpp)                    *)
(*   - rl_dqn::DQNAgent       (src/src/rl_dqn/dqn_agent.cpp)               *)
(* and of the environment that produces its transitions:                   *)
(*   - env_flappy::FlappyEnv  (src/src/env_flappy/env_flappy.cpp)          *)
(*                                                                         *)
(* Numbers.  The program computes in IEEE binary32.  The model computes in *)
(* a binary floating-point format of the same kind with a shorter          *)
(* significand: a value is m * 2^e, written [m |-> m, e |-> e] with m odd  *)
(* (or m = 0, e = 0), and the result of every arithmetic operation is the  *)
(* exact result rounded to nearest, ties to even, to MantissaBits          *)
(* significant bits.  Overflow to infinity, underflow and NaN are out of   *)
(* reach of the bounded runs.                                              *)
(***************************************************************************)
EXTENDS Integers, Sequences, FiniteSets, TLC

VARIABLES
    config_,            \* DQNAgent::config_            (dqn_agent.h:78)
    main_network_,      \* DQNAgent::main_network_      (dqn_agent.h:81)
    target_network_,    \* DQNAgent::target_network_    (dqn_agent.h:82)
    replay_buffer_,     \* DQNAgent::replay_buffer_ / the ReplayBuffer under test
    optimizer_,         \* DQNAgent::optimizer_         (dqn_agent.h:88)
    total_steps_,       \* DQNAgent::total_steps_       (dqn_agent.h:91)
    training_steps_,    \* DQNAgent::training_steps_    (dqn_agent.h:92)
    current_epsilon_,   \* DQNAgent::current_epsilon_   (dqn_agent.h:93)
    env_,               \* the env_flappy::FlappyEnv under test
    driver,             \* the caller: how many calls of each kind it has made
    last                \* the last call: its name, arguments and what it returned

vars == << config_, main_network_, target_network_, replay_buffer_, optimizer_,
           total_steps_, training_steps_, current_epsilon_, env_, driver, last >>

agent_vars == << config_, main_network_, target_network_, optimizer_,
                 total_steps_, training_steps_, current_epsilon_ >>

-----------------------------------------------------------------------------
(* Bounds of the model.                                                    *)

\* significand length of the model's floating-point format (binary32: 24)
MantissaBits == 5
\* largest capacity a ReplayBuffer under test is constructed with
MaxCapacity == 3
\* pushes made on one ReplayBuffer under test
MaxPushes == 6
\* sample() calls made on one ReplayBuffer under test
MaxSamples == 1
\* calls made on one DQNAgent
MaxCalls == 6
\* calls made on one Network under test
MaxNetCalls == 3

\* calls made on one AdamOptimizer
MaxAdamCalls == 4

-----------------------------------------------------------------------------
(* Floating-point arithmetic.                                              *)

\* 2^n for n >= 0
Pow2(n) == 2 ^ n

Abs(x) == IF x < 0 THEN -x ELSE x

\* the float m * 2^e
Float(m, e) == [m |-> m, e |-> e]

\* 0.0f
Zero == Float(0, 0)

\* the one representation of m * 2^e: an odd significand
RECURSIVE Normal(_, _)
Normal(m, e) ==
    IF m = 0 THEN Zero
    ELSE IF m % 2 = 0 THEN Normal(m \div 2, e + 1)
    ELSE Float(m, e)

\* how many low bits n >= 0 has beyond MantissaBits significant ones
RECURSIVE ExcessBits(_, _)
ExcessBits(n, k) ==
    IF n < Pow2(MantissaBits + k) THEN k ELSE ExcessBits(n, k + 1)

\* m / d rounded to an integer, ties to even (m >= 0, d > 0)
RoundHalfEven(m, d) ==
    LET q == m \div d
        r == m % d
    IN  IF 2 * r > d \/ (2 * r = d /\ q % 2 = 1) THEN q + 1 ELSE q

\* the float nearest to n * 2^e
Round(n, e) ==
    LET k == ExcessBits(Abs(n), 0)
        q == RoundHalfEven(Abs(n), Pow2(k))
    IN  Normal(IF n < 0 THEN -q ELSE q, e + k)

\* the number of bits of d > 0
RECURSIVE BitLength(_, _)
BitLength(d, k) == IF d < Pow2(k) THEN k ELSE BitLength(d, k + 1)

\* the float nearest to (n / d) * 2^e for d > 0: the quotient is taken to two
\* bits more than the format holds, and an inexact quotient gets one more low
\* bit set so that it rounds as the exact value does
RoundRatio(n, d, e) ==
    LET s == MantissaBits + 2 + BitLength(d, 0)
        q == (Abs(n) * Pow2(s)) \div d
        t == IF (Abs(n) * Pow2(s)) % d = 0 THEN 2 * q ELSE 2 * q + 1
    IN  Round(IF n < 0 THEN -t ELSE t, e - s - 1)

\* static_cast<float>(n)
FromInt(n) == Round(n, 0)

\* 1.0f
One == FromInt(1)

\* the float literal nearest to num / den
Frac(num, den) == RoundRatio(num, den, 0)

\* unary minus
FNeg(a) == Float(-a.m, a.e)

\* hi + lo for hi.e >= lo.e, both non-zero: a lo more than 2 * MantissaBits
\* binary places below hi is less than half a step of hi
AddAligned(hi, lo) ==
    IF hi.e - lo.e > 2 * MantissaBits THEN hi
    ELSE Round(hi.m * Pow2(hi.e - lo.e) + lo.m, lo.e)

FAdd(a, b) ==
    IF a.m = 0 THEN b
    ELSE IF b.m = 0 THEN a
    ELSE IF a.e >= b.e THEN AddAligned(a, b)
    ELSE AddAligned(b, a)

FSub(a, b) == FAdd(a, FNeg(b))

FMul(a, b) == Round(a.m * b.m, a.e + b.e)

\* a / b for b # 0
FDiv(a, b) ==
    IF b.m < 0 THEN RoundRatio(-a.m, -b.m, a.e - b.e)
    ELSE RoundRatio(a.m, b.m, a.e - b.e)

\* a < b
FLess(a, b) == FSub(a, b).m < 0

\* std::min(a, b)
FMin(a, b) == IF FLess(b, a) THEN b ELSE a

\* std::max(a, b)
FMax(a, b) == IF FLess(a, b) THEN b ELSE a

-----------------------------------------------------------------------------
(* The environment's types the core consumes (env_flappy.h).               *)

NO_FLAP == "NO_FLAP"

FLAP == "FLAP"

Action == {NO_FLAP, FLAP}

Obs(y, vy, dx, dy) == [y |-> y, vy |-> vy, dx_to_pipe |-> dx, dy_to_gap |-> dy]

\* the default-constructed Observation
ObsZero == Obs(Zero, Zero, Zero, Zero)

\* the observation of the repository's agent test
ObsMid == Obs(Frac(1, 2), Frac(1, 8), One, Frac(1, 4))

ObsLow == Obs(Frac(1, 4), Frac(-1, 2), Frac(1, 2), Frac(-1, 4))

Observations == {ObsZero, ObsMid, ObsLow}

Exp(s, a, r, s2, d) ==
    [state |-> s, action |-> a, reward |-> r, next_state |-> s2, done |-> d]

\* the transitions callers store: both actions, terminal and not
ExperienceSet ==
    { Exp(ObsMid, NO_FLAP, Frac(1, 2), ObsLow, FALSE),
      Exp(ObsLow, FLAP, FromInt(-1), ObsMid, TRUE) }

-----------------------------------------------------------------------------
(* rl_dqn::ReplayBuffer.  write_index_ and slot indices count from 0 as in *)
(* the code; slot i is experiences_[i + 1] here.  rng_ is the generator's  *)
(* state: its seed and the shuffles it has served.                         *)

ReplayBuffer(capacity, seed) ==
    [ experiences_ |-> << >>,
      capacity_    |-> capacity,
      write_index_ |-> 0,
      rng_         |-> [seed |-> seed, shuffles |-> << >>] ]

Size(b) == Len(b.experiences_)

\* a plausible slip: push appends even when the buffer is full
PushNoCap(b, e) == [b EXCEPT !.experiences_ = Append(@, e)]

\* a plausible slip: the overwrite branch forgets to advance the cursor
PushStuckCursor(b, e) ==
    IF Len(b.experiences_) < b.capacity_
    THEN [b EXCEPT !.experiences_ = Append(@, e)]
    ELSE [b EXCEPT !.experiences_[b.write_index_ + 1] = e]

\* a plausible slip: a full buffer starts over with the new entry
PushRestartsWhenFull(b, e) ==
    IF Len(b.experiences_) < b.capacity_
    THEN [b EXCEPT !.experiences_ = Append(@, e)]
    ELSE [b EXCEPT !.experiences_ = << e >>, !.write_index_ = 0]

\* ReplayBuffer::push with capacity_ >= 1
Push(b, e) ==
    IF Len(b.experiences_) < b.capacity_
    THEN [b EXCEPT !.experiences_ = Append(@, e)]
    ELSE [b EXCEPT !.experiences_[b.write_index_ + 1] = e,
                   !.write_index_ = (@ + 1) % b.capacity_]

\* a plausible slip: the threshold is off by one
CanSampleOneShort(b, batch_size) == Len(b.experiences_) + 1 >= batch_size

CanSample(b, batch_size) == Len(b.experiences_) >= batch_size

\* a plausible slip: clear also rewinds the write cursor
ClearRewindsCursor(b) == [b EXCEPT !.experiences_ = << >>, !.write_index_ = 0]

Clear(b) == [b EXCEPT !.experiences_ = << >>]

\* a plausible slip: indices drawn with replacement
ShuffleOrdersWithRepeats(n) == [1..n -> 0..(n - 1)]

\* the orders std::shuffle can leave the indices 0 .. n-1 in
ShuffleOrders(n) ==
    { p \in [1..n -> 0..(n - 1)] : \A i, j \in 1..n : i # j => p[i] # p[j] }

\* the slots sample(batch_size) can copy from, in the order it copies them:
\* the first batch_size indices of a shuffle of all held indices
SampleSlots(b, batch_size) ==
    { [i \in 1..batch_size |-> p[i]] : p \in ShuffleOrders(Len(b.experiences_)) }

\* the batch sample() copies out of the slots
BatchOf(b, slots) ==
    [i \in 1..Len(slots) |-> b.experiences_[slots[i] + 1]]

\* the batches sample(batch_size) can return
Batches(b, batch_size) == { BatchOf(b, slots) : slots \in SampleSlots(b, batch_size) }

\* the generator after shuffling n indices: std::shuffle draws from it only
\* when there are two or more
Shuffled(b, n) == IF n <= 1 THEN b ELSE [b EXCEPT !.rng_.shuffles = Append(@, n)]

-----------------------------------------------------------------------------
(* A ReplayBuffer on its own: constructed with some capacity, then driven  *)
(* by any sequence of push, sample, can_sample and clear.  The caller tags *)
(* the experiences it pushes: the k-th push carries reward k.              *)

\* the value of a variable that belongs to no object of the run
Absent == "absent"

\* the process ended in the last call (a write through the null data pointer)
Crashed == last.op = "push" /\ last.crashed

\* e carrying the tag k
Tagged(e, k) == [e EXCEPT !.reward = FromInt(k)]

InitBuffer ==
    /\ \E c \in 0..MaxCapacity : replay_buffer_ = ReplayBuffer(c, 12345)
    /\ config_ = Absent
    /\ main_network_ = Absent
    /\ target_network_ = Absent
    /\ optimizer_ = Absent
    /\ total_steps_ = 0
    /\ training_steps_ = 0
    /\ current_epsilon_ = Absent
    /\ env_ = Absent
    /\ driver = [pushes |-> 0, samples |-> 0, cleared |-> FALSE]
    /\ last = [op |-> "construct"]

\* push(e).  With capacity_ = 0 the else branch assigns to experiences_[0] of
\* a vector that owns no storage and then divides by zero: the call does not
\* return.
BufPush(e) ==
    /\ ~Crashed
    /\ driver.pushes < MaxPushes
    /\ driver' = [driver EXCEPT !.pushes = @ + 1]
    /\ IF replay_buffer_.capacity_ = 0
       THEN /\ last' = [op |-> "push", crashed |-> TRUE]
            /\ UNCHANGED replay_buffer_
       ELSE /\ replay_buffer_' = Push(replay_buffer_, Tagged(e, driver.pushes + 1))
            /\ last' = [op |-> "push", crashed |-> FALSE]
    /\ UNCHANGED agent_vars

\* sample(n): throws when fewer than n are held, else shuffles all held
\* indices and copies the first n out
BufSample(n) ==
    /\ ~Crashed
    /\ driver.samples < MaxSamples
    /\ driver' = [driver EXCEPT !.samples = @ + 1]
    /\ IF Len(replay_buffer_.experiences_) < n
       THEN /\ last' = [op |-> "sample", n |-> n, threw |-> TRUE]
            /\ UNCHANGED replay_buffer_
       ELSE \E slots \in SampleSlots(replay_buffer_, n) :
            /\ replay_buffer_' = Shuffled(replay_buffer_, Size(replay_buffer_))
            /\ last' = [op |-> "sample", n |-> n, threw |-> FALSE,
                        slots |-> slots,
                        batch |-> BatchOf(replay_buffer_, slots)]
    /\ UNCHANGED agent_vars

BufCanSample(n) ==
    /\ ~Crashed
    /\ last' = [op |-> "can_sample", n |-> n, result |-> CanSample(replay_buffer_, n)]
    /\ UNCHANGED << replay_buffer_, driver, agent_vars >>

BufClear ==
    /\ ~Crashed
    /\ replay_buffer_' = Clear(replay_buffer_)
    /\ driver' = [driver EXCEPT !.cleared = TRUE]
    /\ last' = [op |-> "clear"]
    /\ UNCHANGED agent_vars

NextBuffer ==
    \/ \E e \in ExperienceSet : BufPush(e) /\ UNCHANGED env_
    \/ \E n \in 0..(MaxCapacity + 1) : BufSample(n) /\ UNCHANGED env_
    \/ \E n \in 0..(MaxCapacity + 1) : BufCanSample(n) /\ UNCHANGED env_
    \/ BufClear /\ UNCHANGED env_

SpecBuffer == InitBuffer /\ [][NextBuffer]_vars

-----------------------------------------------------------------------------
(* Claims about the ReplayBuffer.                                          *)

\* the tags held, and the oldest of them
TagsHeld(b) == { b.experiences_[i].reward : i \in 1..Size(b) }

OldestTag(b) == CHOOSE t \in TagsHeld(b) : \A u \in TagsHeld(b) : ~FLess(u, t)

\* a push that returned, on a buffer of capacity >= 1
PushStep == last'.op = "push" /\ ~last'.crashed /\ driver'.pushes = driver.pushes + 1

C1_SizeWithinCapacity ==
    replay_buffer_.capacity_ >= 1 => Size(replay_buffer_) <= replay_buffer_.capacity_

C1_PushEffect ==
    PushStep =>
        IF Size(replay_buffer_) < replay_buffer_.capacity_
        THEN Size(replay_buffer_') = Size(replay_buffer_) + 1
        ELSE Size(replay_buffer_') = Size(replay_buffer_)

\* C1: on a ReplayBuffer of capacity C >= 1, under any sequence of push,
\* sample, can_sample and clear, size() <= C in every state; a push made while
\* size() < C increases size() by exactly 1 and a push made while size() = C
\* leaves size() unchanged.
C1_SizeBounded == [](C1_SizeWithinCapacity) /\ [][C1_PushEffect]_vars

\* a push at full capacity has happened and the size stayed at the capacity
C1_Witness ==
    /\ last.op = "push" /\ ~last.crashed
    /\ replay_buffer_.capacity_ >= 2
    /\ driver.pushes > replay_buffer_.capacity_
    /\ Size(replay_buffer_) = replay_buffer_.capacity_

\* C2: after capacity + k pushes (k > 0) of distinct-tagged experiences into a
\* freshly constructed ReplayBuffer (no clear), size() equals the capacity and
\* the slots read circularly from the write cursor hold the last `capacity`
\* pushes in push order, oldest first.
C2_KeepsLastCapacity ==
    LET b == replay_buffer_
        c == b.capacity_
    IN  (c >= 1 /\ ~driver.cleared /\ driver.pushes > c) =>
            /\ Size(b) = c
            /\ \A i \in 0..(c - 1) :
                  b.experiences_[((b.write_index_ + i) % c) + 1].reward
                      = FromInt(driver.pushes - c + 1 + i)

\* the cursor has wrapped past slot 0 on a buffer of capacity >= 2
C2_Witness ==
    /\ replay_buffer_.capacity_ >= 2
    /\ ~driver.cleared
    /\ driver.pushes >= replay_buffer_.capacity_ + 2
    /\ Size(replay_buffer_) = replay_buffer_.capacity_

C3_EvictsOldest ==
    (PushStep /\ Size(replay_buffer_) = replay_buffer_.capacity_) =>
        replay_buffer_.experiences_[replay_buffer_.write_index_ + 1].reward
            = OldestTag(replay_buffer_)

\* C3: over any sequence of push and clear, every push made while
\* size() = capacity overwrites the oldest-inserted entry currently held.
C3_FifoEviction == [][C3_EvictsOldest]_vars

C4_SampleEffect ==
    last'.op = "sample" /\ driver'.samples = driver.samples + 1 =>
        IF last'.n > Size(replay_buffer_)
        THEN last'.threw /\ replay_buffer_' = replay_buffer_
        ELSE /\ ~last'.threw
             /\ Len(last'.batch) = last'.n
             /\ \A i \in 1..last'.n :
                   /\ last'.slots[i] \in 0..(Size(replay_buffer_) - 1)
                   /\ last'.batch[i] = replay_buffer_.experiences_[last'.slots[i] + 1]
                   /\ \A j \in 1..last'.n : i # j => last'.slots[i] # last'.slots[j]
             /\ replay_buffer_'.experiences_ = replay_buffer_.experiences_
             /\ replay_buffer_'.write_index_ = replay_buffer_.write_index_
             /\ replay_buffer_'.capacity_ = replay_buffer_.capacity_

\* C4: sample(n) with n <= size() returns exactly n experiences, each copied
\* from a distinct currently-held slot, and leaves the stored entries, the size
\* and the write cursor unchanged; sample(n) with n > size() throws.
C4_SampleDistinct == [][C4_SampleEffect]_vars

\* a batch of two or more was drawn from a buffer holding more than the batch
C4_Witness ==
    /\ last.op = "sample" /\ ~last.threw
    /\ last.n >= 2
    /\ Size(replay_buffer_) > last.n

-----------------------------------------------------------------------------
(* std::mt19937 and std::uniform_real_distribution<float>(0, 1): the draws *)
(* of a generator seeded with `seed`, in 1024ths, as the library the       *)
(* repository builds against produces them.                                *)

UniformTable(seed) ==
    CASE seed = 1 -> << 427, 1021, 737, 954, 0, 131, 309, 1023, 150, 241, 94, 406, 190, 397, 353, 685, 406, 957, 551, 866, 429, 320, 701, 537 >>
      [] seed = 2 -> << 446, 189, 26, 953, 562, 970, 445, 496, 430, 328, 338, 158, 209, 715, 634, 122, 306, 496, 273, 647, 636, 837, 541, 699 >>
      [] seed = 3 -> << 564, 72, 725, 860, 297, 124, 523, 582, 914, 447, 917, 19, 128, 41, 212, 253, 52, 95, 451, 711, 30, 148, 467, 464 >>
      [] seed = 4 -> << 990, 922, 560, 176, 996, 876, 731, 623, 714, 611, 221, 144, 999, 229, 6, 715, 259, 924, 445, 648, 798, 5, 202, 586 >>
      [] seed = 5 -> << 227, 56, 891, 851, 211, 372, 940, 1002, 500, 91, 626, 406, 784, 362, 530, 498, 303, 1014, 192, 827, 82, 665, 756, 839 >>
      [] seed = 6 -> << 914, 970, 339, 214, 840, 65, 42, 378, 110, 1008, 609, 101, 542, 623, 428, 543, 343, 494, 637, 845, 448, 773, 753, 399 >>
      [] seed = 7 -> << 78, 232, 798, 326, 448, 1001, 740, 466, 1001, 315, 551, 270, 513, 88, 73, 429, 274, 16, 511, 540, 695, 889, 823, 338 >>
      [] seed = 8 -> << 894, 11, 991, 245, 890, 386, 543, 836, 238, 432, 11, 626, 440, 784, 412, 411, 535, 893, 489, 948, 568, 150, 556, 718 >>
      [] seed = 9 -> << 10, 373, 513, 511, 507, 7, 137, 323, 145, 13, 223, 898, 428, 140, 254, 141, 86, 405, 353, 506, 170, 323, 899, 382 >>
      [] seed = 10 -> << 789, 305, 21, 506, 648, 453, 766, 851, 510, 597, 230, 25, 202, 726, 778, 271, 173, 269, 90, 153, 701, 700, 976, 836 >>
      [] seed = 11 -> << 184, 69, 19, 680, 474, 198, 742, 948, 430, 107, 497, 231, 13, 917, 499, 846, 964, 95, 871, 911, 747, 730, 111, 530 >>
      [] seed = 12 -> << 157, 456, 757, 894, 269, 88, 546, 740, 14, 358, 940, 34, 922, 302, 34, 84, 979, 743, 140, 381, 290, 692, 620, 1007 >>
      [] seed = 12345 -> << 951, 911, 323, 133, 188, 40, 209, 846, 581, 544, 609, 979, 987, 473, 668, 945, 766, 382, 669, 158, 765, 913, 984, 27 >>
      [] seed = 12346 -> << 951, 453, 459, 11, 233, 789, 724, 634, 196, 159, 877, 397, 525, 823, 87, 747, 265, 367, 441, 878, 973, 194, 127, 925 >>
      [] seed = 12347 -> << 720, 1, 550, 657, 254, 282, 547, 668, 646, 410, 610, 504, 235, 753, 351, 358, 221, 945, 129, 426, 583, 837, 437, 350 >>

\* the k-th draw (k = 1, 2, ...) of dist(0.0f, 1.0f) on mt19937(seed)
Uniform01(seed, k) == Round(UniformTable(seed)[k], -10)

\* floor of the square root of n >= 0, found bit by bit from `bit` down
RECURSIVE SqrtBits(_, _, _)
SqrtBits(n, r, bit) ==
    IF bit = 0 THEN r
    ELSE IF (r + bit) * (r + bit) <= n
         THEN SqrtBits(n, r + bit, bit \div 2)
         ELSE SqrtBits(n, r, bit \div 2)

\* std::sqrt of a >= 0, correctly rounded: the exponent is made even, the root
\* of the significand is taken to two bits more than the format holds, and an
\* inexact root gets one more low bit set
FSqrt(a) ==
    LET odd == a.e % 2 = 1
        m2 == IF odd THEN 2 * a.m ELSE a.m
        e2 == IF odd THEN a.e - 1 ELSE a.e
        n == m2 * Pow2(2 * (MantissaBits + 2))
        t == SqrtBits(n, 0, Pow2(2 * MantissaBits))
    IN  Round(IF t * t = n THEN 2 * t ELSE 2 * t + 1,
              (e2 \div 2) - (MantissaBits + 2) - 1)

\* static_cast<float>(1.0f - std::pow(beta, step)) for 0 <= beta < 1: the
\* power and the difference are taken in double, where they are exact at the
\* sizes the runs reach, and the result is rounded once
BiasCorrection(beta, step) ==
    Round(Pow2(-(beta.e * step)) - beta.m ^ step, beta.e * step)

-----------------------------------------------------------------------------
(* rl_dqn::Network.  Layers, neurons and weights count from 1 here and     *)
(* from 0 in the code.                                                     *)

\* a std::vector with its elements computed and stored
Vec(f) == f \o << >>

\* Network::relu
Relu(x) == FMax(Zero, x)

\* Network::relu_derivative
ReluDerivative(x) == IF FLess(Zero, x) THEN One ELSE Zero

\* the draws the constructor has made before it fills weights_[i] (1-based)
RECURSIVE DrawsBefore(_, _)
DrawsBefore(layer_sizes, i) ==
    IF i = 1 THEN 0
    ELSE DrawsBefore(layer_sizes, i - 1) + layer_sizes[i - 1] * layer_sizes[i]

\* Network::xavier_init: dist(-limit, limit) on the d-th draw of rng_
XavierInit(seed, d, fan_in, fan_out) ==
    LET limit == FSqrt(FDiv(FromInt(6), FromInt(fan_in + fan_out)))
    IN  FAdd(FMul(Uniform01(seed, d), FSub(limit, FNeg(limit))), FNeg(limit))

\* a plausible slip: weights_[i] has fan_in rows of fan_out columns
NetworkTransposed(layer_sizes, seed) ==
    [ layer_sizes_ |-> layer_sizes,
      weights_ |->
          Vec([i \in 1..(Len(layer_sizes) - 1) |->
              Vec([k \in 1..layer_sizes[i] |->
                  Vec([j \in 1..layer_sizes[i + 1] |->
                      XavierInit(seed,
                                 DrawsBefore(layer_sizes, i)
                                     + (j - 1) * layer_sizes[i] + k,
                                 layer_sizes[i], layer_sizes[i + 1])])])]),
      biases_ |->
          Vec([i \in 1..(Len(layer_sizes) - 1) |->
              Vec([j \in 1..layer_sizes[i + 1] |-> Zero])]),
      rng_ |-> [seed |-> seed, draws |-> DrawsBefore(layer_sizes, Len(layer_sizes))] ]

\* Network::Network for two or more layer sizes
Network(layer_sizes, seed) ==
    [ layer_sizes_ |-> layer_sizes,
      weights_ |->
          Vec([i \in 1..(Len(layer_sizes) - 1) |->
              Vec([j \in 1..layer_sizes[i + 1] |->
                  Vec([k \in 1..layer_sizes[i] |->
                      XavierInit(seed,
                                 DrawsBefore(layer_sizes, i)
                                     + (j - 1) * layer_sizes[i] + k,
                                 layer_sizes[i], layer_sizes[i + 1])])])]),
      biases_ |->
          Vec([i \in 1..(Len(layer_sizes) - 1) |->
              Vec([j \in 1..layer_sizes[i + 1] |-> Zero])]),
      rng_ |-> [seed |-> seed, draws |-> DrawsBefore(layer_sizes, Len(layer_sizes))] ]

\* one row of Network::matvec_mult: result[i] += W[i][j] * x[j] for j in order
RECURSIVE DotFrom(_, _, _, _)
DotFrom(row, x, j, acc) ==
    IF j > Len(x) THEN acc
    ELSE DotFrom(row, x, j + 1, FAdd(acc, FMul(row[j], x[j])))

\* Network::matvec_mult
MatVecMult(W, x) == Vec([i \in 1..Len(W) |-> DotFrom(W[i], x, 1, Zero)])

\* z[i] += b[i] for every i
AddBiases(z, b) == Vec([i \in 1..Len(z) |-> FAdd(z[i], b[i])])

\* z = W * x + b of one layer
PreActivation(net, layer, x) ==
    AddBiases(MatVecMult(net.weights_[layer], x), net.biases_[layer])

\* ReLU on every layer but the last
Activation(net, layer, z) ==
    IF layer < Len(net.weights_) THEN Vec([i \in 1..Len(z) |-> Relu(z[i])]) ELSE z

\* a plausible slip: only an input that is too long is refused
ForwardThrowsOnLonger(net, input) == Len(input) > net.layer_sizes_[1]

\* Network::forward throws std::invalid_argument
ForwardThrows(net, input) == Len(input) # net.layer_sizes_[1]

RECURSIVE ForwardFrom(_, _, _)
ForwardFrom(net, layer, a) ==
    IF layer > Len(net.weights_) THEN a
    ELSE ForwardFrom(net, layer + 1,
                     Activation(net, layer, PreActivation(net, layer, a)))

\* Network::forward on an input of the right length
Forward(net, input) == ForwardFrom(net, 1, input)

\* pre_activations of Network::backward: entry l is z of layer l
RECURSIVE PreActivations(_, _, _)
PreActivations(net, layer, a) ==
    IF layer > Len(net.weights_) THEN << >>
    ELSE << PreActivation(net, layer, a) >>
         \o PreActivations(net, layer + 1,
                           Activation(net, layer, PreActivation(net, layer, a)))

\* layer_activations of Network::backward, given its pre_activations: entry 1
\* is the input, entry l + 1 the output of layer l
LayerActivations(net, input, pre) ==
    << input >> \o Vec([l \in 1..Len(pre) |-> Activation(net, l, pre[l])])

\* Network::backward, lines 176-190: the error handed to the previous layer.
\* For neuron i of the layer, in order, prev_delta[j] += W[i][j] * delta[i] *
\* relu_deriv, where relu_deriv reads prev_pre_activation[i].  When the layer
\* has more neurons than the previous one that read lies beyond the end of
\* prev_pre_activation: the value is whatever the memory holds, and its
\* derivative, 0 or 1, is stray[<< layer, i >>].
RECURSIVE PrevDeltaFrom(_, _, _, _, _, _, _)
PrevDeltaFrom(net, layer, delta, prev_pre, stray, i, acc) ==
    IF i > Len(net.weights_[layer]) THEN acc
    ELSE LET relu_deriv == IF layer < Len(net.weights_)
                           THEN IF i <= Len(prev_pre)
                                THEN ReluDerivative(prev_pre[i])
                                ELSE stray[<< layer, i >>]
                           ELSE One
             row == net.weights_[layer][i]
         IN  PrevDeltaFrom(net, layer, delta, prev_pre, stray, i + 1,
                 Vec([j \in 1..Len(acc) |->
                     IF j <= Len(row)
                     THEN FAdd(acc[j], FMul(FMul(row[j], delta[i]), relu_deriv))
                     ELSE acc[j]]))

\* the delta each layer sees: entry l is the delta used for layer l
RECURSIVE Deltas(_, _, _, _, _, _)
Deltas(net, acts, pre, stray, layer, delta) ==
    IF layer = 1 THEN << delta >>
    ELSE Deltas(net, acts, pre, stray, layer - 1,
                PrevDeltaFrom(net, layer, delta, pre[layer - 1], stray, 1,
                              Vec([j \in 1..Len(acts[layer]) |-> Zero])))
         \o << delta >>

\* a plausible slip: the error is target - predicted
OutputErrorReversed(predicted_q_values, target_q_values) ==
    Vec([i \in 1..Len(predicted_q_values) |->
            FSub(target_q_values[i], predicted_q_values[i])])

\* Network::backward, lines 153-156: the MSE derivative
OutputError(predicted_q_values, target_q_values) ==
    Vec([i \in 1..Len(predicted_q_values) |->
            FSub(predicted_q_values[i], target_q_values[i])])

\* Network::backward, lines 165-173: the gradients of every layer from the
\* layer's delta and the activation that entered it
Gradients(net, acts, deltas) ==
    [ weight_gradients |->
          Vec([l \in 1..Len(net.weights_) |->
              Vec([i \in 1..Len(net.weights_[l]) |->
                  Vec([j \in 1..Len(net.weights_[l][i]) |->
                      FMul(deltas[l][i], acts[l][j])])])]),
      bias_gradients |->
          Vec([l \in 1..Len(net.biases_) |->
              Vec([i \in 1..Len(net.weights_[l]) |-> deltas[l][i]])]) ]

\* Network::backward after its forward pass
BackwardPass(net, acts, pre, stray, output_error) ==
    Gradients(net, acts,
              Deltas(net, acts, pre, stray, Len(net.weights_), output_error))

\* Network::backward with the pre-activations of its forward pass
BackwardFrom(net, input, pre, stray, output_error) ==
    BackwardPass(net, LayerActivations(net, input, pre), pre, stray, output_error)

\* the neuron count of the widest layer from `layer` on
RECURSIVE MaxWidth(_, _, _)
MaxWidth(net, layer, w) ==
    IF layer > Len(net.weights_) THEN w
    ELSE MaxWidth(net, layer + 1,
                  IF Len(net.weights_[layer]) > w THEN Len(net.weights_[layer]) ELSE w)

\* Network::backward, line 183: the reads of prev_pre_activation[i] that lie
\* beyond its end, as << layer, i >>: layer is neither the first nor the last
\* and has more neurons than the layer before it
StrayReads(net) ==
    { r \in (2..(Len(net.weights_) - 1)) \X (1..MaxWidth(net, 1, 0)) :
          /\ r[2] <= Len(net.weights_[r[1]])
          /\ r[2] > Len(net.weights_[r[1] - 1]) }

\* Network::backward: the weight and bias gradients it hands back, when the
\* reads beyond the end yield the derivatives `stray`
BackwardReading(net, input, target_q_values, predicted_q_values, stray) ==
    BackwardFrom(net, input, PreActivations(net, 1, input), stray,
                 OutputError(predicted_q_values, target_q_values))

\* Network::backward on a network with at most one hidden layer, as the
\* agents here have: no read lies beyond the end
Backward(net, input, target_q_values, predicted_q_values) ==
    BackwardReading(net, input, target_q_values, predicted_q_values,
                    [r \in StrayReads(net) |-> Zero])

\* a plausible slip: the column counts are not compared
SetWeightsThrowsRowsOnly(net, weights) ==
    \/ Len(weights) # Len(net.weights_)
    \/ \E i \in 1..Len(weights) : Len(weights[i]) # Len(net.weights_[i])

\* Network::set_weights throws std::invalid_argument
SetWeightsThrows(net, weights) ==
    \/ Len(weights) # Len(net.weights_)
    \/ \E i \in 1..Len(weights) :
          \/ Len(weights[i]) # Len(net.weights_[i])
          \/ \E j \in 1..Len(weights[i]) :
                Len(weights[i][j]) # Len(net.weights_[i][j])

\* Network::set_weights
SetWeights(net, weights) ==
    IF SetWeightsThrows(net, weights) THEN net ELSE [net EXCEPT !.weights_ = weights]

\* Network::set_biases throws std::invalid_argument
SetBiasesThrows(net, biases) ==
    \/ Len(biases) # Len(net.biases_)
    \/ \E i \in 1..Len(biases) : Len(biases[i]) # Len(net.biases_[i])

\* Network::set_biases
SetBiases(net, biases) ==
    IF SetBiasesThrows(net, biases) THEN net ELSE [net EXCEPT !.biases_ = biases]

-----------------------------------------------------------------------------
(* rl_dqn::AdamOptimizer.                                                  *)

AdamOptimizer(learning_rate, beta1, beta2, epsilon) ==
    [ learning_rate_ |-> learning_rate, beta1_ |-> beta1, beta2_ |-> beta2,
      epsilon_ |-> epsilon, step_ |-> 0,
      m_weights_ |-> << >>, v_weights_ |-> << >>,
      m_biases_ |-> << >>, v_biases_ |-> << >> ]

ZeroLikeWeights(weights) ==
    Vec([l \in 1..Len(weights) |->
        Vec([i \in 1..Len(weights[l]) |->
            Vec([j \in 1..Len(weights[l][i]) |-> Zero])])])

ZeroLikeBiases(biases) ==
    Vec([l \in 1..Len(biases) |-> Vec([i \in 1..Len(biases[l]) |-> Zero])])

\* AdamOptimizer::initialize_state
InitializeState(opt, weights, biases) ==
    [opt EXCEPT !.m_weights_ = ZeroLikeWeights(weights),
                !.v_weights_ = ZeroLikeWeights(weights),
                !.m_biases_ = ZeroLikeBiases(biases),
                !.v_biases_ = ZeroLikeBiases(biases)]

\* m = beta1 * m + (1 - beta1) * g
FirstMoment(opt, m, g) ==
    FAdd(FMul(opt.beta1_, m), FMul(FSub(One, opt.beta1_), g))

\* v = beta2 * v + (1 - beta2) * g * g
SecondMoment(opt, v, g) ==
    FAdd(FMul(opt.beta2_, v), FMul(FMul(FSub(One, opt.beta2_), g), g))

\* p -= learning_rate * m_hat / (sqrt(v_hat) + epsilon)
AdamStep(opt, bias_correction1, bias_correction2, p, m, v) ==
    LET m_hat == FDiv(m, bias_correction1)
        v_hat == FDiv(v, bias_correction2)
    IN  FSub(p, FDiv(FMul(opt.learning_rate_, m_hat),
                     FAdd(FSqrt(v_hat), opt.epsilon_)))

\* a plausible slip: the moments are allocated anew on every update
NeedsInitializeAlways(opt) == TRUE

\* AdamOptimizer::update, line 36: the moments are allocated when no step
\* has been taken
NeedsInitialize(opt) == opt.step_ = 0

\* the loops of update visit weight j of neuron i of layer l
InWeights(weights, l, i, j) ==
    l <= Len(weights) /\ i <= Len(weights[l]) /\ j <= Len(weights[l][i])

\* the loops of update visit neuron i of layer l
InNeurons(weights, l, i) == l <= Len(weights) /\ i <= Len(weights[l])

\* AdamOptimizer::update: the optimizer after the call and the tensors it
\* leaves in the caller's weights and biases.  The loops run over the
\* caller's weights; the moments keep the shape they were allocated with.
AdamUpdate(opt0, weights, biases, weight_gradients, bias_gradients) ==
    LET opt == IF NeedsInitialize(opt0)
               THEN InitializeState(opt0, weights, biases) ELSE opt0
        step == opt.step_ + 1
        bias_correction1 == BiasCorrection(opt.beta1_, step)
        bias_correction2 == BiasCorrection(opt.beta2_, step)
        mw == Vec([l \in 1..Len(opt.m_weights_) |->
                 Vec([i \in 1..Len(opt.m_weights_[l]) |->
                 Vec([j \in 1..Len(opt.m_weights_[l][i]) |->
                    IF InWeights(weights, l, i, j)
                    THEN FirstMoment(opt, opt.m_weights_[l][i][j],
                                     weight_gradients[l][i][j])
                    ELSE opt.m_weights_[l][i][j]])])])
        vw == Vec([l \in 1..Len(opt.v_weights_) |->
                 Vec([i \in 1..Len(opt.v_weights_[l]) |->
                 Vec([j \in 1..Len(opt.v_weights_[l][i]) |->
                    IF InWeights(weights, l, i, j)
                    THEN SecondMoment(opt, opt.v_weights_[l][i][j],
                                      weight_gradients[l][i][j])
                    ELSE opt.v_weights_[l][i][j]])])])
        mb == Vec([l \in 1..Len(opt.m_biases_) |->
                 Vec([i \in 1..Len(opt.m_biases_[l]) |->
                    IF InNeurons(weights, l, i)
                    THEN FirstMoment(opt, opt.m_biases_[l][i], bias_gradients[l][i])
                    ELSE opt.m_biases_[l][i]])])
        vb == Vec([l \in 1..Len(opt.v_biases_) |->
                 Vec([i \in 1..Len(opt.v_biases_[l]) |->
                    IF InNeurons(weights, l, i)
                    THEN SecondMoment(opt, opt.v_biases_[l][i], bias_gradients[l][i])
                    ELSE opt.v_biases_[l][i]])])
    IN  [ optimizer |-> [opt EXCEPT !.step_ = step,
                                    !.m_weights_ = mw, !.v_weights_ = vw,
                                    !.m_biases_ = mb, !.v_biases_ = vb],
          weights |->
              Vec([l \in 1..Len(weights) |-> Vec([i \in 1..Len(weights[l]) |->
                  Vec([j \in 1..Len(weights[l][i]) |->
                      AdamStep(opt, bias_correction1, bias_correction2,
                               weights[l][i][j], mw[l][i][j], vw[l][i][j])])])]),
          biases |->
              Vec([l \in 1..Len(weights) |-> Vec([i \in 1..Len(weights[l]) |->
                  AdamStep(opt, bias_correction1, bias_correction2,
                           biases[l][i], mb[l][i], vb[l][i])])]) ]

\* AdamOptimizer::reset
AdamReset(opt) ==
    [opt EXCEPT !.step_ = 0, !.m_weights_ = << >>, !.v_weights_ = << >>,
                !.m_biases_ = << >>, !.v_biases_ = << >>]

-----------------------------------------------------------------------------
(* rl_dqn::DQNAgent.                                                       *)

\* the float just below 1.0f
BelowOne == Float(Pow2(MantissaBits) - 1, -MantissaBits)

\* DQNConfig with the fields the bounded runs vary.  The discount factor and
\* beta2 default to 0.99f and 0.999f, which lie strictly below 1.0f in
\* binary32 and would round to 1.0f in the model's format; they are the
\* format's largest value below 1.0f here.
DQNConfig(layer_sizes, epsilon_end, epsilon_decay_steps, replay_buffer_size, batch_size, seed) ==
    [ layer_sizes |-> layer_sizes,
      learning_rate |-> Frac(1, 16),
      gamma |-> BelowOne,
      epsilon_start |-> One,
      epsilon_end |-> epsilon_end,
      epsilon_decay_steps |-> epsilon_decay_steps,
      replay_buffer_size |-> replay_buffer_size,
      batch_size |-> batch_size,
      adam_beta1 |-> Frac(9, 10),
      adam_beta2 |-> BelowOne,
      adam_epsilon |-> Float(1, -27),
      seed |-> seed ]

\* an epsilon_end whose last significant bit lies below the last bit of
\* epsilon_end - 1.0f, as that of the default 0.01f does in binary32
EpsilonEndFine == Float(Pow2(MantissaBits - 1) + 1, -(MantissaBits + 2))

\* DQNAgent::observation_to_input
ObservationToInput(obs) == << obs.y, obs.vy, obs.dx_to_pipe, obs.dy_to_gap >>

\* index of an action in a Q-value vector (1-based: NO_FLAP 1, FLAP 2)
ActionIdx(action) == IF action = FLAP THEN 2 ELSE 1

\* DQNAgent::select_action, lines 33-34: epsilon after the n-th call
EpsilonAt(cfg, n) ==
    LET epsilon_progress ==
            FMin(One, FDiv(FromInt(n), FromInt(cfg.epsilon_decay_steps)))
    IN  FAdd(cfg.epsilon_start,
             FMul(FSub(cfg.epsilon_end, cfg.epsilon_start), epsilon_progress))

\* a plausible slip: the generator is seeded with the config seed plus the
\* step count
ExploresSeededByConfig(n, epsilon) ==
    FLess(Uniform01(config_.seed + n, 1), epsilon)

\* DQNAgent::select_action, line 40: the n-th call explores
Explores(n, epsilon) == FLess(Uniform01(n, 1), epsilon)

\* DQNAgent::select_action, line 42: the random action of the n-th call
RandomAction(n) == IF FLess(Uniform01(n, 2), Frac(1, 2)) THEN NO_FLAP ELSE FLAP

\* a plausible slip: ties go to FLAP
GreedyActionTieFlap(q_values) ==
    IF ~FLess(q_values[2], q_values[1]) THEN FLAP ELSE NO_FLAP

\* DQNAgent::select_action, lines 49-53
GreedyAction(q_values) == IF FLess(q_values[1], q_values[2]) THEN FLAP ELSE NO_FLAP

\* DQNAgent::compute_targets, line 88: std::max over the two next Q-values
MaxQ(next_q_values) == FMax(next_q_values[1], next_q_values[2])

\* DQNAgent::compute_targets for one experience
ComputeTarget(cfg, target_network, exp) ==
    LET target_q ==
            IF exp.done THEN exp.reward
            ELSE FAdd(exp.reward,
                      FMul(cfg.gamma,
                           MaxQ(Forward(target_network,
                                        ObservationToInput(exp.next_state)))))
    IN  [<< Zero, Zero >> EXCEPT ![ActionIdx(exp.action)] = target_q]

\* DQNAgent::compute_targets
ComputeTargets(cfg, target_network, batch) ==
    Vec([i \in 1..Len(batch) |-> ComputeTarget(cfg, target_network, batch[i])])

\* a plausible slip: the loss is the error, not its square
SampleLossSigned(q_predicted, q_target) == FSub(q_predicted, q_target)

\* DQNAgent::train, lines 150-152: the squared error of the action taken
SampleLoss(q_predicted, q_target) ==
    FMul(FSub(q_predicted, q_target), FSub(q_predicted, q_target))

\* DQNAgent::train, lines 145-147: the target of the action not taken is the
\* prediction, so that its gradient is zero
MaskTarget(exp, target0, predicted_q) ==
    [target0 EXCEPT ![3 - ActionIdx(exp.action)] = predicted_q[3 - ActionIdx(exp.action)]]

\* DQNAgent::train, lines 145-159, given the Q-values forward predicted
TrainSampleOn(main_network, exp, target, predicted_q) ==
    [ target |-> target,
      predicted |-> predicted_q,
      loss |-> SampleLoss(predicted_q[ActionIdx(exp.action)],
                          target[ActionIdx(exp.action)]),
      gradients |-> Backward(main_network, ObservationToInput(exp.state),
                             target, predicted_q) ]

\* DQNAgent::train, lines 145-159, given the Q-values forward predicted
TrainSampleWith(main_network, exp, target0, predicted_q) ==
    TrainSampleOn(main_network, exp, MaskTarget(exp, target0, predicted_q),
                  predicted_q)

\* DQNAgent::train, lines 138-159: one experience of the batch
TrainSample(main_network, exp, target0) ==
    TrainSampleWith(main_network, exp, target0,
                    Forward(main_network, ObservationToInput(exp.state)))

\* total_weight_gradients += weight_gradients
TensorAdd(a, b) ==
    Vec([l \in 1..Len(a) |-> Vec([i \in 1..Len(a[l]) |->
        Vec([j \in 1..Len(a[l][i]) |-> FAdd(a[l][i][j], b[l][i][j])])])])

\* total_bias_gradients += bias_gradients
MatrixAdd(a, b) ==
    Vec([l \in 1..Len(a) |-> Vec([i \in 1..Len(a[l]) |-> FAdd(a[l][i], b[l][i])])])

\* DQNAgent::train, lines 153 and 162-170: the sums after one more experience
AddSample(acc, one) ==
    [ total_weight_gradients |->
          TensorAdd(acc.total_weight_gradients, one.gradients.weight_gradients),
      total_bias_gradients |->
          MatrixAdd(acc.total_bias_gradients, one.gradients.bias_gradients),
      total_loss |-> FAdd(acc.total_loss, one.loss),
      targets |-> Append(acc.targets, one.target) ]

\* DQNAgent::train, lines 134-171: the batch loop from experience i on
RECURSIVE Accumulate(_, _, _, _, _)
Accumulate(main_network, batch, targets, i, acc) ==
    IF i > Len(batch) THEN acc
    ELSE Accumulate(main_network, batch, targets, i + 1,
             AddSample(acc, TrainSample(main_network, batch[i], targets[i])))

\* DQNAgent::train, lines 178-184: the updated tensors are set back and the
\* loss is averaged
SetBack(main_network, batch_size, sums, updated) ==
    [ main_network |-> SetBiases(SetWeights(main_network, updated.weights),
                                  updated.biases),
      optimizer |-> updated.optimizer,
      avg_loss |-> FDiv(sums.total_loss, FromInt(batch_size)),
      targets |-> sums.targets,
      sums |-> sums ]

\* a plausible slip: the optimizer is handed the batch average
OptimizeAveraged(main_network, optimizer, batch_size, sums) ==
    SetBack(main_network, batch_size, sums,
            AdamUpdate(optimizer, main_network.weights_, main_network.biases_,
                       Vec([l \in 1..Len(sums.total_weight_gradients) |->
                           Vec([i \in 1..Len(sums.total_weight_gradients[l]) |->
                               Vec([j \in 1..Len(sums.total_weight_gradients[l][i]) |->
                                   FDiv(sums.total_weight_gradients[l][i][j],
                                        FromInt(batch_size))])])]),
                       Vec([l \in 1..Len(sums.total_bias_gradients) |->
                           Vec([i \in 1..Len(sums.total_bias_gradients[l]) |->
                               FDiv(sums.total_bias_gradients[l][i],
                                    FromInt(batch_size))])])))

\* DQNAgent::train, lines 174-184: the optimizer step on the summed gradients
Optimize(main_network, optimizer, batch_size, sums) ==
    SetBack(main_network, batch_size, sums,
            AdamUpdate(optimizer, main_network.weights_, main_network.biases_,
                       sums.total_weight_gradients, sums.total_bias_gradients))

\* a plausible slip: the next state is evaluated by the main network
TrainOnBatchBootstrapsFromMain(cfg, main_network, target_network, optimizer, batch) ==
    Optimize(main_network, optimizer, Len(batch),
             Accumulate(main_network, batch,
                        ComputeTargets(cfg, main_network, batch), 1,
                        [ total_weight_gradients |->
                              ZeroLikeWeights(main_network.weights_),
                          total_bias_gradients |->
                              ZeroLikeBiases(main_network.biases_),
                          total_loss |-> Zero,
                          targets |-> << >> ]))

\* DQNAgent::train above the batch threshold, for the batch sample() returned
TrainOnBatch(cfg, main_network, target_network, optimizer, batch) ==
    Optimize(main_network, optimizer, Len(batch),
             Accumulate(main_network, batch,
                        ComputeTargets(cfg, target_network, batch), 1,
                        [ total_weight_gradients |->
                              ZeroLikeWeights(main_network.weights_),
                          total_bias_gradients |->
                              ZeroLikeBiases(main_network.biases_),
                          total_loss |-> Zero,
                          targets |-> << >> ]))

\* a plausible slip: the biases are copied along with the weights
UpdateTargetWithBiases(main_network, target_network) ==
    SetBiases(SetWeights(target_network, main_network.weights_), main_network.biases_)

\* DQNAgent::update_target_network: the target network after the call
UpdateTarget(main_network, target_network) ==
    SetWeights(target_network, main_network.weights_)

\* the configurations agents are constructed with
AgentConfigs ==
    { DQNConfig(<< 4, 2, 2 >>, Frac(1, 2), 2, 3, 2, 6),
      DQNConfig(<< 4, 1, 2 >>, EpsilonEndFine, 2, 4, 4, 5) }

\* DQNAgent::DQNAgent
Constructed(cfg) ==
    /\ config_ = cfg
    /\ main_network_ = Network(cfg.layer_sizes, cfg.seed)
    /\ target_network_ =
           UpdateTarget(Network(cfg.layer_sizes, cfg.seed),
                        Network(cfg.layer_sizes, cfg.seed + 1))
    /\ replay_buffer_ = ReplayBuffer(cfg.replay_buffer_size, cfg.seed + 2)
    /\ optimizer_ = AdamOptimizer(cfg.learning_rate, cfg.adam_beta1,
                                  cfg.adam_beta2, cfg.adam_epsilon)
    /\ total_steps_ = 0
    /\ training_steps_ = 0
    /\ current_epsilon_ = cfg.epsilon_start
    /\ driver = [calls |-> 0]
    /\ last = [op |-> "construct"]

\* an agent whose network takes the four inputs of an observation
InitAgent == env_ = Absent /\ \E cfg \in AgentConfigs : Constructed(cfg)

\* the caller makes one more call
Call ==
    /\ driver.calls < MaxCalls
    /\ driver' = [driver EXCEPT !.calls = @ + 1]

\* DQNAgent::select_action.  The counter and epsilon are written before
\* anything can throw; forward throws on the greedy branch when the network
\* does not take four inputs.
SelectAction(state) ==
    /\ Call
    /\ total_steps_' = total_steps_ + 1
    /\ current_epsilon_' = EpsilonAt(config_, total_steps_ + 1)
    /\ LET explores == Explores(total_steps_ + 1, current_epsilon_')
           input == ObservationToInput(state)
           threw == ~explores /\ ForwardThrows(main_network_, input)
       IN  last' = [ op |-> "select_action", state |-> state,
                     explores |-> explores, threw |-> threw,
                     action |-> IF explores THEN RandomAction(total_steps_ + 1)
                                ELSE IF threw THEN Absent
                                ELSE GreedyAction(Forward(main_network_, input)) ]
    /\ UNCHANGED << config_, main_network_, target_network_, replay_buffer_,
                    optimizer_, training_steps_ >>

\* DQNAgent::store_experience
StoreExperience(state, action, reward, next_state, done) ==
    /\ Call
    /\ replay_buffer_' = Push(replay_buffer_, Exp(state, action, reward, next_state, done))
    /\ last' = [op |-> "store_experience"]
    /\ UNCHANGED agent_vars

\* a plausible slip: train() also synchronises the target network
TrainedSyncsTarget(r, batch) ==
    /\ main_network_' = r.main_network
    /\ target_network_' = UpdateTarget(r.main_network, target_network_)
    /\ optimizer_' = r.optimizer
    /\ last' = [op |-> "train", trained |-> TRUE, threw |-> FALSE,
                loss |-> r.avg_loss, batch |-> batch, targets |-> r.targets]

\* a plausible slip: the update ran on a copy of the optimizer
TrainedOnOptimizerCopy(r, batch) ==
    /\ main_network_' = r.main_network
    /\ target_network_' = target_network_
    /\ optimizer_' = optimizer_
    /\ last' = [op |-> "train", trained |-> TRUE, threw |-> FALSE,
                loss |-> r.avg_loss, batch |-> batch, targets |-> r.targets]

\* DQNAgent::train has trained on the batch sample() returned: what it leaves
\* in the agent, with the batch and the targets it handed to backward
Trained(r, batch) ==
    /\ main_network_' = r.main_network
    /\ target_network_' = target_network_
    /\ optimizer_' = r.optimizer
    /\ last' = [op |-> "train", trained |-> TRUE, threw |-> FALSE,
                loss |-> r.avg_loss, batch |-> batch, targets |-> r.targets]

\* DQNAgent::train.  Below the batch threshold it returns 0.0f at once.  Above
\* it, sample() throws before it shuffles when fewer than batch_size are held,
\* and has shuffled before the first forward can throw.
Train ==
    /\ Call
    /\ IF ~CanSample(replay_buffer_, config_.batch_size)
       THEN /\ last' = [op |-> "train", trained |-> FALSE, threw |-> FALSE,
                        loss |-> Zero]
            /\ UNCHANGED << agent_vars, replay_buffer_ >>
       ELSE IF Size(replay_buffer_) < config_.batch_size
       THEN /\ last' = [op |-> "train", trained |-> FALSE, threw |-> TRUE,
                        loss |-> Absent]
            /\ UNCHANGED << agent_vars, replay_buffer_ >>
       ELSE /\ replay_buffer_' = Shuffled(replay_buffer_, Size(replay_buffer_))
            /\ IF ForwardThrows(main_network_, ObservationToInput(ObsZero))
               THEN /\ last' = [op |-> "train", trained |-> FALSE, threw |-> TRUE,
                                loss |-> Absent]
                    /\ UNCHANGED agent_vars
               ELSE /\ \E batch \in Batches(replay_buffer_, config_.batch_size) :
                          Trained(TrainOnBatch(config_, main_network_,
                                               target_network_, optimizer_, batch),
                                  batch)
                    /\ training_steps_' = training_steps_ + 1
                    /\ UNCHANGED << config_, total_steps_, current_epsilon_ >>

\* DQNAgent::update_target_network
UpdateTargetNetwork ==
    /\ Call
    /\ target_network_' = UpdateTarget(main_network_, target_network_)
    /\ last' = [op |-> "update_target_network"]
    /\ UNCHANGED << config_, main_network_, replay_buffer_, optimizer_, total_steps_,
                    training_steps_, current_epsilon_ >>

NextAgent ==
    \/ \E state \in Observations : SelectAction(state) /\ UNCHANGED env_
    \/ \E e \in ExperienceSet :
          /\ StoreExperience(e.state, e.action, e.reward, e.next_state, e.done)
          /\ UNCHANGED env_
    \/ Train /\ UNCHANGED env_
    \/ UpdateTargetNetwork /\ UNCHANGED env_

SpecAgent == InitAgent /\ [][NextAgent]_vars

\* a configuration whose first layer size is not the four of an observation
MisfitConfig == DQNConfig(<< 3, 1, 2 >>, Frac(1, 2), 2, 3, 2, 5)

\* an agent every forward of which throws std::invalid_argument
InitMisfit == env_ = Absent /\ Constructed(MisfitConfig)

SpecMisfit == InitMisfit /\ [][NextAgent]_vars

-----------------------------------------------------------------------------
(* Claims about the DQNAgent.                                              *)

\* the step is a call of `op` on the agent
AgentCall(op) == last'.op = op /\ driver'.calls = driver.calls + 1

\* the buffer holds at least batch_size entries
Ready == Size(replay_buffer_) >= config_.batch_size

C5_SkipEffect ==
    (AgentCall("train") /\ ~Ready) =>
        /\ ~last'.threw
        /\ last'.loss = Zero
        /\ UNCHANGED << agent_vars, replay_buffer_ >>

\* C5: train() called while the buffer holds fewer than batch_size entries
\* returns 0.0 without throwing and leaves the counters, epsilon, both
\* networks, the optimizer and the buffer (entries, cursor and generator)
\* as they were.
C5_TrainBelowThresholdIsNoOp == [][C5_SkipEffect]_vars

\* a skipped train() on an agent that has stored experiences and taken steps
C5_Witness ==
    /\ last.op = "train" /\ ~last.trained /\ ~last.threw
    /\ Size(replay_buffer_) >= 1
    /\ Size(replay_buffer_) < config_.batch_size
    /\ total_steps_ >= 1

C6_TrainEffect ==
    (AgentCall("train") /\ Ready /\ config_.batch_size >= 1) =>
        /\ last'.trained /\ ~last'.threw
        /\ ~FLess(last'.loss, Zero)
        /\ training_steps_' = training_steps_ + 1
        /\ (config_.batch_size = 4 /\ Size(replay_buffer_) = 4 /\ training_steps_ = 0)
               => training_steps_' = 1

\* C6: every train() call made while the buffer holds at least batch_size >= 1
\* entries returns a non-negative loss and increases training_steps_ by
\* exactly 1; with batch size 4 and exactly 4 stored on an agent that has not
\* trained, training_steps_ becomes 1.
C6_TrainAboveThresholdSteps == [][C6_TrainEffect]_vars

\* the first train() of an agent with batch size 4 and 4 stored experiences
\* returned a positive loss
C6_Witness ==
    /\ last.op = "train" /\ last.trained
    /\ config_.batch_size = 4
    /\ Size(replay_buffer_) = 4
    /\ training_steps_ = 1
    /\ FLess(Zero, last.loss)

C7_StaysReady ==
    Ready =>
        /\ Size(replay_buffer_') >= config_'.batch_size
        /\ AgentCall("train") =>
               last'.trained /\ training_steps_' = training_steps_ + 1

\* C7: under any sequence of select_action, store_experience, train and
\* update_target_network, once the buffer holds at least batch_size entries it
\* does so in every later state, and every train() call from then on performs
\* a gradient step.
C7_LifecycleMonotone == [][C7_StaysReady]_vars

\* a buffer that was ready has taken a store at full capacity and the agent
\* has trained
C7_Witness ==
    /\ last.op = "store_experience"
    /\ training_steps_ >= 1
    /\ Size(replay_buffer_) = replay_buffer_.capacity_
    /\ replay_buffer_.write_index_ > 0
    /\ Ready

C8_UpdateEffect ==
    AgentCall("update_target_network") =>
        /\ target_network_'.weights_ = main_network_.weights_
        /\ target_network_'.biases_ = target_network_.biases_
        /\ main_network_' = main_network_

\* C8: update_target_network() makes the target network's weights equal to
\* the main network's weights at call time, leaves the target network's biases
\* as they were, and does not change the main network.
C8_TargetCopiesWeightsOnly == [][C8_UpdateEffect]_vars

\* the target was synchronised after training had moved the main network's
\* weights and biases away from it
C8_Witness ==
    /\ last.op = "update_target_network"
    /\ training_steps_ >= 1
    /\ target_network_.weights_ = main_network_.weights_
    /\ target_network_.weights_ # Network(config_.layer_sizes, config_.seed).weights_
    /\ target_network_.biases_ # main_network_.biases_

C9_DecayEffect ==
    (/\ AgentCall("select_action")
     /\ FLess(config_.epsilon_end, config_.epsilon_start)
     /\ config_.epsilon_decay_steps >= 1) =>
        /\ ~FLess(current_epsilon_, current_epsilon_')
        /\ total_steps_' >= config_.epsilon_decay_steps
               => current_epsilon_' = config_.epsilon_end

\* C9: for epsilon_end < epsilon_start and epsilon_decay_steps >= 1, epsilon
\* never increases across successive select_action calls, and it equals
\* epsilon_end after every select_action call whose total-step count is at
\* least epsilon_decay_steps.
C9_EpsilonReachesEnd == [][C9_DecayEffect]_vars

C10_SelectEffect ==
    (AgentCall("select_action") /\ ~last'.threw) =>
        LET q_values == Forward(main_network_, ObservationToInput(last'.state))
        IN  /\ last'.action \in Action
            /\ ~last'.explores =>
                   IF FLess(q_values[ActionIdx(NO_FLAP)], q_values[ActionIdx(FLAP)])
                   THEN last'.action = FLAP
                   ELSE last'.action = NO_FLAP

\* C10: a select_action call that returns, returns FLAP or NO_FLAP; on the
\* greedy branch it returns FLAP exactly when the main network's Q-value for
\* FLAP is strictly greater than its Q-value for NO_FLAP, and NO_FLAP
\* otherwise, a tie included.
C10_GreedyPicksStrictMax == [][C10_SelectEffect]_vars

\* a greedy call met a tie and answered NO_FLAP
C10_Witness ==
    /\ last.op = "select_action" /\ ~last.explores /\ ~last.threw
    /\ LET q_values == Forward(main_network_, ObservationToInput(last.state))
       IN  q_values[1] = q_values[2]
    /\ last.action = NO_FLAP

\* the step is a call that ended with an error
FailedCall ==
    /\ driver'.calls = driver.calls + 1
    /\ last'.op \in {"select_action", "train"}
    /\ last'.threw

C11_FailureEffect ==
    FailedCall =>
        UNCHANGED << main_network_, target_network_, replay_buffer_, optimizer_,
                     total_steps_, training_steps_, current_epsilon_ >>

\* C11: whenever select_action or train ends with an error (an agent whose
\* first layer size is not 4, so forward throws), the network parameters, the
\* buffer's contents and generator state, the optimizer state, total_steps_,
\* training_steps_ and epsilon are exactly as before the call.
C11_NoMutationOnFailure == [][C11_FailureEffect]_vars

-----------------------------------------------------------------------------
(* A Network on its own: constructed from a list of layer sizes, then      *)
(* driven by any sequence of forward, backward, set_weights and            *)
(* set_biases.  A construction that throws leaves no object to call.       *)

\* Network::Network throws std::invalid_argument
NetworkThrows(layer_sizes) == Len(layer_sizes) < 2

\* the layer-size lists networks under test are constructed from
Architectures ==
    { << >>, << 2 >>, << 2, 1 >>, << 2, 2 >>, << 1, 2, 2, 1 >>, << 1, 1, 2, 1 >> }

\* the inputs callers hand to forward and backward
NetInputs ==
    { << One >>, << FromInt(-1) >>, << One, Frac(1, 2) >>,
      << Frac(-1, 2), One >>, << One, One, One >> }

\* the target Q-values callers hand to backward
NetTargets == { << Zero >>, << One >>, << Zero, One >>, << One, Frac(-1, 2) >> }

\* a tensor shaped like `biases` with every entry v
FilledLike(biases, v) ==
    Vec([l \in 1..Len(biases) |-> Vec([i \in 1..Len(biases[l]) |-> v])])

\* the weight tensors callers hand to set_weights: those of other networks,
\* and one whose second row is a column short
WeightTensors ==
    { Network(a, 2).weights_ : a \in { b \in Architectures : ~NetworkThrows(b) } }
        \cup { << << << One, Zero >>, << One >> >> >> }

\* the bias tensors callers hand to set_biases
BiasTensors ==
    { FilledLike(Network(a, 2).biases_, Frac(1, 2)) :
          a \in { b \in Architectures : ~NetworkThrows(b) } }
        \cup { << << One, One, One >> >> }

InitNetwork ==
    /\ \E a \in Architectures :
          /\ main_network_ = IF NetworkThrows(a) THEN Absent ELSE Network(a, 1)
          /\ last = [op |-> "construct", layer_sizes |-> a,
                     threw |-> NetworkThrows(a)]
    /\ config_ = Absent
    /\ target_network_ = Absent
    /\ replay_buffer_ = Absent
    /\ optimizer_ = Absent
    /\ total_steps_ = 0
    /\ training_steps_ = 0
    /\ current_epsilon_ = Absent
    /\ env_ = Absent
    /\ driver = [calls |-> 0]

\* the caller makes one more call on the network it constructed
NetCall ==
    /\ ~(last.op = "construct" /\ last.threw)
    /\ driver.calls < MaxNetCalls
    /\ driver' = [driver EXCEPT !.calls = @ + 1]
    /\ UNCHANGED << config_, target_network_, replay_buffer_, optimizer_,
                    total_steps_, training_steps_, current_epsilon_ >>

\* forward(input), a const member
NetForward(input) ==
    /\ NetCall
    /\ last' = [ op |-> "forward", input |-> input,
                 threw |-> ForwardThrows(main_network_, input),
                 output |-> IF ForwardThrows(main_network_, input) THEN Absent
                            ELSE Forward(main_network_, input) ]
    /\ UNCHANGED main_network_

\* backward(input, target, forward(input), ...), a const member, called as
\* DQNAgent::train calls it: on an input of the first layer's size and a
\* target of the last layer's.  A read beyond the end of a pre-activation
\* vector yields any value: its derivative is 0 or 1.
NetBackward(input, target) ==
    /\ NetCall
    /\ Len(input) = main_network_.layer_sizes_[1]
    /\ Len(target) = main_network_.layer_sizes_[Len(main_network_.layer_sizes_)]
    /\ \E stray \in [StrayReads(main_network_) -> {Zero, One}] :
          last' = [ op |-> "backward", input |-> input, target |-> target,
                    stray_reads |-> StrayReads(main_network_),
                    gradients |-> BackwardReading(main_network_, input, target,
                                                  Forward(main_network_, input),
                                                  stray) ]
    /\ UNCHANGED main_network_

\* set_weights(weights)
NetSetWeights(weights) ==
    /\ NetCall
    /\ last' = [ op |-> "set_weights", tensor |-> weights,
                 threw |-> SetWeightsThrows(main_network_, weights) ]
    /\ main_network_' = SetWeights(main_network_, weights)

\* set_biases(biases)
NetSetBiases(biases) ==
    /\ NetCall
    /\ last' = [ op |-> "set_biases", tensor |-> biases,
                 threw |-> SetBiasesThrows(main_network_, biases) ]
    /\ main_network_' = SetBiases(main_network_, biases)

NextNetwork ==
    \/ \E input \in NetInputs : NetForward(input) /\ UNCHANGED env_
    \/ \E input \in NetInputs, target \in NetTargets :
          NetBackward(input, target) /\ UNCHANGED env_
    \/ \E weights \in WeightTensors : NetSetWeights(weights) /\ UNCHANGED env_
    \/ \E biases \in BiasTensors : NetSetBiases(biases) /\ UNCHANGED env_

SpecNetwork == InitNetwork /\ [][NextNetwork]_vars

-----------------------------------------------------------------------------
(* An AdamOptimizer on its own: the caller holds two parameter sets, one   *)
(* of one layer of two neurons and one of one layer of one neuron, and     *)
(* hands either to update with gradients of its shape, or calls reset.     *)

\* the weights and biases a caller passes to update, or their gradients
Tensors(weights, biases) == [weights |-> weights, biases |-> biases]

\* the optimizers constructed: the agent's, and one without momentum
AdamOptimizers ==
    { AdamOptimizer(Frac(1, 16), Frac(9, 10), BelowOne, Float(1, -27)),
      AdamOptimizer(Frac(1, 8), Zero, Frac(1, 2), Float(1, -27)) }

\* the parameters the caller starts with
AdamHeld ==
    [ wide |-> Tensors(<< << << Zero >>, << Frac(1, 2) >> >> >>,
                       << << Zero, One >> >>),
      narrow |-> Tensors(<< << << One >> >> >>, << << Zero >> >>) ]

\* the gradients the caller passes along with each parameter set
AdamGradients ==
    [ wide |-> { Tensors(<< << << One >>, << Frac(-1, 2) >> >> >>,
                         << << Zero, Frac(3, 4) >> >>),
                 Tensors(<< << << Frac(-1, 4) >>, << Zero >> >> >>,
                         << << One, Frac(-1, 2) >> >>),
                 Tensors(<< << << FromInt(3) >>, << Frac(1, 8) >> >> >>,
                         << << FromInt(-2), Zero >> >>) },
      narrow |-> { Tensors(<< << << One >> >> >>, << << Zero >> >>),
                   Tensors(<< << << Frac(-1, 2) >> >> >>, << << Frac(3, 4) >> >>) } ]

\* update indexes the moments by the caller's shape: every index it visits
\* lies inside the moments as allocated (an index outside them is undefined
\* behaviour, which no caller of the repository triggers)
MomentsCover(opt, weights) ==
    \A l \in 1..Len(weights) : \A i \in 1..Len(weights[l]) :
        /\ InNeurons(opt.m_biases_, l, i)
        /\ \A j \in 1..Len(weights[l][i]) : InWeights(opt.m_weights_, l, i, j)

InitAdam ==
    /\ optimizer_ \in AdamOptimizers
    /\ last = [op |-> "construct"]
    /\ driver = [calls |-> 0, held |-> AdamHeld]
    /\ env_ = Absent
    /\ config_ = Absent
    /\ main_network_ = Absent
    /\ target_network_ = Absent
    /\ replay_buffer_ = Absent
    /\ total_steps_ = 0
    /\ training_steps_ = 0
    /\ current_epsilon_ = Absent

\* update has run on one of the caller's parameter sets: the optimizer and
\* the set as it leaves them
AdamUpdated(which, gradients, updated) ==
    /\ optimizer_' = updated.optimizer
    /\ driver' = [driver EXCEPT !.calls = @ + 1,
                                !.held[which] = Tensors(updated.weights,
                                                        updated.biases)]
    /\ last' = [ op |-> "update", which |-> which,
                 before |-> driver.held[which], gradients |-> gradients ]

\* update(weights, biases, weight_gradients, bias_gradients)
AdamUpdateCall(which, gradients) ==
    /\ driver.calls < MaxAdamCalls
    /\ NeedsInitialize(optimizer_)
           \/ MomentsCover(optimizer_, driver.held[which].weights)
    /\ AdamUpdated(which, gradients,
                   AdamUpdate(optimizer_, driver.held[which].weights,
                              driver.held[which].biases,
                              gradients.weights, gradients.biases))
    /\ UNCHANGED << config_, main_network_, target_network_, replay_buffer_,
                    total_steps_, training_steps_, current_epsilon_ >>

\* reset()
AdamResetCall ==
    /\ driver.calls < MaxAdamCalls
    /\ optimizer_' = AdamReset(optimizer_)
    /\ driver' = [driver EXCEPT !.calls = @ + 1]
    /\ last' = [op |-> "reset"]
    /\ UNCHANGED << config_, main_network_, target_network_, replay_buffer_,
                    total_steps_, training_steps_, current_epsilon_ >>

NextAdam ==
    \/ \E which \in {"wide", "narrow"} :
          \E gradients \in AdamGradients[which] :
             AdamUpdateCall(which, gradients) /\ UNCHANGED env_
    \/ AdamResetCall /\ UNCHANGED env_

SpecAdam == InitAdam /\ [][NextAdam]_vars

-----------------------------------------------------------------------------
(* Claims about the Network.                                               *)

\* the step is a call of `op` on the network under test
NetStep(op) == last'.op = op /\ driver'.calls = driver.calls + 1

\* layer count, row count of every layer, column count of every row
WeightShape(t) == [l \in 1..Len(t) |-> [i \in 1..Len(t[l]) |-> Len(t[l][i])]]

\* layer count and length of every layer
BiasShape(t) == [l \in 1..Len(t) |-> Len(t[l])]

C12_SetWeightsEffect ==
    NetStep("set_weights") =>
        /\ last'.threw <=>
               WeightShape(last'.tensor) # WeightShape(main_network_.weights_)
        /\ last'.threw => main_network_' = main_network_
        /\ ~last'.threw =>
               /\ main_network_'.weights_ = last'.tensor
               /\ main_network_'.biases_ = main_network_.biases_

C12_SetBiasesEffect ==
    NetStep("set_biases") =>
        /\ last'.threw <=>
               BiasShape(last'.tensor) # BiasShape(main_network_.biases_)
        /\ last'.threw => main_network_' = main_network_
        /\ ~last'.threw =>
               /\ main_network_'.biases_ = last'.tensor
               /\ main_network_'.weights_ = main_network_.weights_

\* C12: set_weights throws exactly when the supplied tensor's layer count,
\* some layer's row count or some row's column count differs from the
\* network's own (set_biases: layer count or some layer's length); a call that
\* throws leaves weights and biases unchanged, and a call that returns leaves
\* exactly the supplied tensor in place and the other tensor untouched.
C12_SettersValidateShape ==
    [][C12_SetWeightsEffect /\ C12_SetBiasesEffect]_vars

\* set_weights replaced the constructed weights of a network whose biases an
\* earlier set_biases had replaced, and they are still in place
C12_Witness ==
    /\ last.op = "set_weights" /\ ~last.threw
    /\ main_network_.weights_ = last.tensor
    /\ main_network_.weights_ # Network(main_network_.layer_sizes_, 1).weights_
    /\ main_network_.biases_ # Network(main_network_.layer_sizes_, 1).biases_

C13_ForwardEffect ==
    NetStep("forward") =>
        /\ last'.threw <=> Len(last'.input) # main_network_.layer_sizes_[1]
        /\ ~last'.threw =>
               Len(last'.output)
                   = main_network_.layer_sizes_[Len(main_network_.layer_sizes_)]
        /\ (last.op = "forward" /\ ~last.threw /\ last'.input = last.input)
               => last'.output = last.output
        /\ main_network_' = main_network_

C14_Shaped ==
    LET sizes == last.layer_sizes
        n == Len(sizes)
    IN  /\ Len(main_network_.weights_) = n - 1
        /\ Len(main_network_.biases_) = n - 1
        /\ \A i \in 1..(n - 1) :
              /\ Len(main_network_.weights_[i]) = sizes[i + 1]
              /\ \A j \in 1..sizes[i + 1] :
                    Len(main_network_.weights_[i][j]) = sizes[i]
              /\ Len(main_network_.biases_[i]) = sizes[i + 1]
              /\ \A j \in 1..sizes[i + 1] : main_network_.biases_[i][j] = Zero

\* C14: constructing a network from fewer than 2 layer sizes throws;
\* construction from n >= 2 sizes yields n - 1 layers, layer i with a weight
\* matrix of layer_sizes[i+1] rows by layer_sizes[i] columns and a bias vector
\* of length layer_sizes[i+1] that is all zero.
C14_ConstructionShape ==
    last.op = "construct" =>
        /\ last.threw <=> Len(last.layer_sizes) < 2
        /\ ~last.threw => C14_Shaped

\* a network of three layers with unequal neighbouring sizes was constructed
C14_Witness ==
    /\ last.op = "construct" /\ ~last.threw
    /\ last.layer_sizes = << 1, 2, 2, 1 >>
    /\ Len(main_network_.weights_[1]) = 2
    /\ Len(main_network_.weights_[3][1]) = 2

\* sum over i, in the order of the units of layer l, of W_l[i][j] * delta_l[i]
RECURSIVE C15_WeightedError(_, _, _, _, _)
C15_WeightedError(W, delta, j, i, acc) ==
    IF i > Len(W) THEN acc
    ELSE C15_WeightedError(W, delta, j, i + 1, FAdd(acc, FMul(W[i][j], delta[i])))

\* mask of unit j of layer l - 1 for the error coming from layer l
C15_Mask(net, pre, l, j) ==
    IF l = Len(net.weights_) THEN One ELSE ReluDerivative(pre[l - 1][j])

\* the error of layer l - 1 is the masked weighted error of layer l; the
\* error of a layer is what backward returns as its bias gradient
C15_Propagated(net, pre, deltas) ==
    \A l \in 2..Len(net.weights_) :
        \A j \in 1..Len(deltas[l - 1]) :
            deltas[l - 1][j]
                = FMul(C15_Mask(net, pre, l, j),
                       C15_WeightedError(net.weights_[l], deltas[l], j, 1, Zero))

\* C15: in backward, for every architecture, the error propagated from layer
\* l to unit j of layer l - 1 is mask_j * sum_i W_l[i][j] * delta_l[i], where
\* mask_j is 1 when l is the final layer and otherwise 1 exactly when the
\* pre-activation of unit j of layer l - 1 is positive.
C15_BackwardPropagatesMaskedError ==
    last.op = "backward" =>
        C15_Propagated(main_network_,
                       PreActivations(main_network_, 1, last.input),
                       last.gradients.bias_gradients)

\* the target of the action taken, from the networks train() was entered with
C16_TakenTarget(exp) ==
    IF exp.done THEN exp.reward
    ELSE FAdd(exp.reward,
              FMul(config_.gamma,
                   MaxQ(Forward(target_network_, ObservationToInput(exp.next_state)))))

C16_TargetOf(exp, target, predicted_q) ==
    /\ target[ActionIdx(exp.action)] = C16_TakenTarget(exp)
    /\ target[3 - ActionIdx(exp.action)] = predicted_q[3 - ActionIdx(exp.action)]
    /\ OutputError(predicted_q, target)[3 - ActionIdx(exp.action)] = Zero

C16_TargetsEffect ==
    (AgentCall("train") /\ last'.trained) =>
        /\ Len(last'.targets) = Len(last'.batch)
        /\ \A i \in 1..Len(last'.batch) :
              C16_TargetOf(last'.batch[i], last'.targets[i],
                           Forward(main_network_,
                                   ObservationToInput(last'.batch[i].state)))

\* C16: in train(), the target vector handed to backward for a sample holds,
\* in the slot of the action taken, reward when the experience is terminal and
\* otherwise reward + gamma * max of the target network's forward(next_state),
\* and, in the other slot, the main network's own prediction, so that the
\* output error of the action not taken is exactly zero.
C16_TargetsFromTargetNetwork == [][C16_TargetsEffect]_vars

\* a train() on a non-terminal experience after the main network has moved
\* away from the target network, the two disagreeing on the next state's
\* greatest Q-value
C16_Witness ==
    /\ last.op = "train" /\ last.trained
    /\ training_steps_ >= 2
    /\ \E i \in 1..Len(last.batch) :
          /\ ~last.batch[i].done
          /\ MaxQ(Forward(target_network_,
                          ObservationToInput(last.batch[i].next_state)))
                 # MaxQ(Forward(main_network_,
                               ObservationToInput(last.batch[i].next_state)))
          /\ last.targets[i][ActionIdx(last.batch[i].action)] # last.batch[i].reward

\* the gradient of one sample, from the parameters train() was entered with
C17_GradientOf(exp, target) ==
    Backward(main_network_, ObservationToInput(exp.state), target,
             Forward(main_network_, ObservationToInput(exp.state)))

C17_Add(acc, g) ==
    [ weight_gradients |-> TensorAdd(acc.weight_gradients, g.weight_gradients),
      bias_gradients |-> MatrixAdd(acc.bias_gradients, g.bias_gradients) ]

\* the element-wise sum of the samples' gradients, in batch order
RECURSIVE C17_SumFrom(_, _, _, _)
C17_SumFrom(batch, targets, i, acc) ==
    IF i > Len(batch) THEN acc
    ELSE C17_SumFrom(batch, targets, i + 1,
                     C17_Add(acc, C17_GradientOf(batch[i], targets[i])))

C17_Sum(batch, targets) ==
    C17_SumFrom(batch, targets, 1,
                [ weight_gradients |-> ZeroLikeWeights(main_network_.weights_),
                  bias_gradients |-> ZeroLikeBiases(main_network_.biases_) ])

\* the call left exactly what one Adam update on the summed gradient leaves
C17_Applied(sum, updated) ==
    /\ main_network_'.weights_ = updated.weights
    /\ main_network_'.biases_ = updated.biases
    /\ optimizer_' = updated.optimizer
    /\ optimizer_'.step_ = optimizer_.step_ + 1

C17_OneUpdate(sum) ==
    C17_Applied(sum, AdamUpdate(optimizer_, main_network_.weights_,
                                main_network_.biases_,
                                sum.weight_gradients, sum.bias_gradients))

C17_BatchEffect ==
    (AgentCall("train") /\ last'.trained) =>
        C17_OneUpdate(C17_Sum(last'.batch, last'.targets))

C18_TargetEffect ==
    /\ (AgentCall("train") \/ AgentCall("select_action")
            \/ AgentCall("store_experience"))
           => target_network_' = target_network_
    /\ target_network_'.weights_ # target_network_.weights_
           => AgentCall("update_target_network")

\* C18: train, select_action and store_experience never change the target
\* network's weights or biases; after construction the target network's
\* weights change only in update_target_network.
C18_TargetChangesOnlyOnUpdate == [][C18_TargetEffect]_vars

\* after steps, stored experiences and a training step that moved the main
\* network, the target network still holds the weights it was constructed with
C18_Witness ==
    /\ last.op = "train" /\ last.trained
    /\ total_steps_ >= 1
    /\ main_network_.weights_ # target_network_.weights_
    /\ target_network_.weights_
           = Network(config_.layer_sizes, config_.seed).weights_

-----------------------------------------------------------------------------
(* Claims about the AdamOptimizer.                                         *)

\* the step is a call of `op` on the optimizer under test
OptimizerCall(op) == last'.op = op /\ driver'.calls = driver.calls + 1

\* the moments an update leaves, given the moments it started from: inside
\* the supplied tensors they moved by the gradient, outside they stayed
C19_MomentsFrom(opt, mw, vw, mb, vb, supplied, gradients) ==
    /\ WeightShape(optimizer_'.m_weights_) = WeightShape(mw)
    /\ WeightShape(optimizer_'.v_weights_) = WeightShape(vw)
    /\ BiasShape(optimizer_'.m_biases_) = BiasShape(mb)
    /\ BiasShape(optimizer_'.v_biases_) = BiasShape(vb)
    /\ \A l \in 1..Len(mw) : \A i \in 1..Len(mw[l]) :
          /\ optimizer_'.m_biases_[l][i]
                 = IF InNeurons(supplied.weights, l, i)
                   THEN FirstMoment(opt, mb[l][i], gradients.biases[l][i])
                   ELSE mb[l][i]
          /\ optimizer_'.v_biases_[l][i]
                 = IF InNeurons(supplied.weights, l, i)
                   THEN SecondMoment(opt, vb[l][i], gradients.biases[l][i])
                   ELSE vb[l][i]
          /\ \A j \in 1..Len(mw[l][i]) :
                /\ optimizer_'.m_weights_[l][i][j]
                       = IF InWeights(supplied.weights, l, i, j)
                         THEN FirstMoment(opt, mw[l][i][j],
                                          gradients.weights[l][i][j])
                         ELSE mw[l][i][j]
                /\ optimizer_'.v_weights_[l][i][j]
                       = IF InWeights(supplied.weights, l, i, j)
                         THEN SecondMoment(opt, vw[l][i][j],
                                           gradients.weights[l][i][j])
                         ELSE vw[l][i][j]

C19_UpdateEffect ==
    OptimizerCall("update") =>
        /\ optimizer_'.step_ = optimizer_.step_ + 1
        /\ optimizer_.step_ = 0 =>
               C19_MomentsFrom(optimizer_,
                               ZeroLikeWeights(last'.before.weights),
                               ZeroLikeWeights(last'.before.weights),
                               ZeroLikeBiases(last'.before.biases),
                               ZeroLikeBiases(last'.before.biases),
                               last'.before, last'.gradients)
        /\ optimizer_.step_ > 0 =>
               C19_MomentsFrom(optimizer_,
                               optimizer_.m_weights_, optimizer_.v_weights_,
                               optimizer_.m_biases_, optimizer_.v_biases_,
                               last'.before, last'.gradients)

C19_ResetEffect ==
    OptimizerCall("reset") =>
        /\ optimizer_'.step_ = 0
        /\ optimizer_'.m_weights_ = << >> /\ optimizer_'.v_weights_ = << >>
        /\ optimizer_'.m_biases_ = << >> /\ optimizer_'.v_biases_ = << >>

\* C19: every update increases the optimizer's step counter t by exactly 1;
\* the moment tensors are allocated, all zero and shaped like the supplied
\* tensors, exactly on an update that finds t = 0 (the first, and the first
\* after a reset); reset sets t to 0 and empties the moment tensors; an update
\* that finds t > 0 neither allocates nor looks at shapes again.
C19_AdamLifecycle == [][C19_UpdateEffect /\ C19_ResetEffect]_vars

\* after a reset, the moments were allocated for the two-neuron parameter
\* set and a later update on the one-neuron set left their shape alone
C19_Witness ==
    /\ last.op = "update" /\ last.which = "narrow"
    /\ driver.calls = 4
    /\ optimizer_.step_ = 2
    /\ WeightShape(optimizer_.m_weights_) = WeightShape(AdamHeld.wide.weights)
    /\ optimizer_.m_weights_[1][2][1] # Zero

C20_Abs(x) == IF FLess(x, Zero) THEN FNeg(x) ELSE x

\* the change -lr * g / (|g| + eps) applied to p
C20_Stepped(opt, p, g) ==
    FSub(p, FDiv(FMul(opt.learning_rate_, g), FAdd(C20_Abs(g), opt.epsilon_)))

\* the bias-corrected moments of the first update are g and g * g
C20_Collapsed(opt, m, v, g) ==
    /\ FDiv(m, BiasCorrection(opt.beta1_, 1)) = g
    /\ FDiv(v, BiasCorrection(opt.beta2_, 1)) = FMul(g, g)

\* the change has the sign of -g and a magnitude strictly below lr, and
\* there is none when g = 0
C20_Bounded(opt, p, q, g) ==
    /\ g = Zero => q = p
    /\ FLess(Zero, g) => FLess(q, p)
    /\ FLess(g, Zero) => FLess(p, q)
    /\ FLess(C20_Abs(FSub(q, p)), opt.learning_rate_)

\* parameter p with gradient g became q, with moments m and v
C20_Parameter(opt, p, q, g, m, v) ==
    /\ q = C20_Stepped(opt, p, g)
    /\ C20_Collapsed(opt, m, v, g)
    /\ C20_Bounded(opt, p, q, g)

C20_FirstUpdate(opt, before, after, gradients) ==
    \A l \in 1..Len(before.weights) : \A i \in 1..Len(before.weights[l]) :
        /\ C20_Parameter(opt, before.biases[l][i], after.biases[l][i],
                         gradients.biases[l][i],
                         opt.m_biases_[l][i], opt.v_biases_[l][i])
        /\ \A j \in 1..Len(before.weights[l][i]) :
              C20_Parameter(opt, before.weights[l][i][j], after.weights[l][i][j],
                            gradients.weights[l][i][j],
                            opt.m_weights_[l][i][j], opt.v_weights_[l][i][j])

\* C20: on the first Adam update (zero moments, t = 1, 0 <= beta < 1,
\* eps > 0) each parameter with gradient g changes by -lr * g / (|g| + eps),
\* the bias-corrected moments being g and g^2: the change has the sign of -g
\* and a magnitude strictly below lr, and a parameter with g = 0 is unchanged.
C20_FirstUpdateStep ==
    (last.op = "update" /\ optimizer_.step_ = 1) =>
        C20_FirstUpdate(optimizer_, last.before, driver.held[last.which],
                        last.gradients)

-----------------------------------------------------------------------------
(* Further claims about the DQNAgent.                                      *)

\* epsilon after N steps, from the schedule alone
C21_Epsilon(epsilon_start, epsilon_end, epsilon_decay_steps, N) ==
    FAdd(epsilon_start,
         FMul(FSub(epsilon_end, epsilon_start),
              FMin(One, FDiv(FromInt(N), FromInt(epsilon_decay_steps)))))

\* the action of the N-th step as a function of N, the epsilon schedule, the
\* main network's parameters and the state: neither the config seed nor any
\* earlier call enters
C21_ActionAt(N, epsilon, weights, biases, layer_sizes, state) ==
    IF FLess(Uniform01(N, 1), epsilon)
    THEN IF FLess(Uniform01(N, 2), Frac(1, 2)) THEN NO_FLAP ELSE FLAP
    ELSE IF FLess(Forward([layer_sizes_ |-> layer_sizes, weights_ |-> weights,
                           biases_ |-> biases], ObservationToInput(state))[1],
                  Forward([layer_sizes_ |-> layer_sizes, weights_ |-> weights,
                           biases_ |-> biases], ObservationToInput(state))[2])
         THEN FLAP ELSE NO_FLAP

C21_SelectEffect ==
    (AgentCall("select_action") /\ ~last'.threw) =>
        /\ last'.explores
               <=> FLess(Uniform01(total_steps_ + 1, 1),
                         C21_Epsilon(config_.epsilon_start, config_.epsilon_end,
                                     config_.epsilon_decay_steps, total_steps_ + 1))
        /\ last'.action
               = C21_ActionAt(total_steps_ + 1,
                              C21_Epsilon(config_.epsilon_start, config_.epsilon_end,
                                          config_.epsilon_decay_steps,
                                          total_steps_ + 1),
                              main_network_.weights_, main_network_.biases_,
                              main_network_.layer_sizes_, last'.state)

\* C21: the action select_action returns at total-step count N is a function
\* of N, the epsilon schedule, the main network's parameters and the state:
\* the explore/exploit draw comes from a generator seeded with N, so that
\* neither the config seed nor the states and actions of earlier calls matter.
C21_ActionDeterminedByStepCount == [][C21_SelectEffect]_vars

\* an exploring call at step 2 of the agent whose config seed is 6, after an
\* earlier step and a stored experience
C21_Witness ==
    /\ last.op = "select_action" /\ last.explores
    /\ total_steps_ = 2
    /\ config_.seed = 6
    /\ Size(replay_buffer_) >= 1

-----------------------------------------------------------------------------
(* Further claims about the ReplayBuffer.                                  *)

C22_ClearEffect ==
    last'.op = "clear" =>
        /\ Len(replay_buffer_'.experiences_) = 0
        /\ \A n \in 1..(MaxCapacity + 1) : ~CanSample(replay_buffer_', n)
        /\ replay_buffer_'.write_index_ = replay_buffer_.write_index_
        /\ replay_buffer_'.capacity_ = replay_buffer_.capacity_

C22_CanSampleEffect ==
    last'.op = "can_sample" =>
        /\ last'.result <=> Len(replay_buffer_.experiences_) >= last'.n
        /\ replay_buffer_' = replay_buffer_

\* C22: clear() makes size() 0 and can_sample(n) false for every n >= 1 and
\* leaves the write cursor and the capacity as they were; can_sample(n) equals
\* size() >= n and changes nothing.
C22_ClearAndCanSample == [][C22_ClearEffect /\ C22_CanSampleEffect]_vars

\* a buffer that had wrapped was cleared: it is empty and its cursor is not 0
C22_Witness ==
    /\ last.op = "clear"
    /\ Size(replay_buffer_) = 0
    /\ replay_buffer_.write_index_ >= 1
    /\ replay_buffer_.capacity_ >= 2

-----------------------------------------------------------------------------
(* Further claims about the Network.                                       *)

\* the activation feeding layer l: the raw input for the first layer, the
\* rectified output of layer l - 1 otherwise
RECURSIVE C23_Feeding(_, _, _)
C23_Feeding(net, l, input) ==
    IF l = 1 THEN input
    ELSE [i \in 1..Len(net.weights_[l - 1]) |->
             Relu(PreActivation(net, l - 1, C23_Feeding(net, l - 1, input))[i])]

\* the bias gradients are the deltas; every weight gradient is its unit's
\* delta times the activation that enters the connection
C23_GradientsOf(net, input, target, weight_gradients, bias_gradients) ==
    /\ WeightShape(weight_gradients) = WeightShape(net.weights_)
    /\ BiasShape(bias_gradients) = BiasShape(net.biases_)
    /\ \A i \in 1..Len(target) :
          bias_gradients[Len(net.weights_)][i]
              = FSub(Forward(net, input)[i], target[i])
    /\ \A l \in 1..Len(net.weights_) : \A i \in 1..Len(net.weights_[l]) :
          \A j \in 1..Len(net.weights_[l][i]) :
              weight_gradients[l][i][j]
                  = FMul(bias_gradients[l][i], C23_Feeding(net, l, input)[j])

C23_BackwardEffect ==
    NetStep("backward") =>
        /\ main_network_' = main_network_
        /\ C23_GradientsOf(main_network_, last'.input, last'.target,
                           last'.gradients.weight_gradients,
                           last'.gradients.bias_gradients)

\* C23: backward returns gradient tensors shaped like the network's weights
\* and biases, in which the bias gradient of a unit is its layer's delta and
\* the weight gradient of connection (i, j) is delta[i] times the activation
\* j feeding the layer (the raw input for the first layer), the output
\* layer's delta being predicted - target; backward changes no parameter.
C23_BackwardGradients == [][C23_BackwardEffect]_vars

\* backward on a network with two hidden layers returned a non-zero gradient
\* for a first-layer weight and for an output-layer weight
C23_Witness ==
    /\ last.op = "backward"
    /\ Len(main_network_.weights_) = 3
    /\ last.gradients.weight_gradients[1][1][1] # Zero
    /\ last.gradients.weight_gradients[3][1][1] # Zero
    /\ last.gradients.bias_gradients[3][1] # Zero

C24_EpsilonOf(cfg, total_steps) ==
    IF total_steps = 0 THEN cfg.epsilon_start
    ELSE C21_Epsilon(cfg.epsilon_start, cfg.epsilon_end, cfg.epsilon_decay_steps,
                     total_steps)

C24_StepEffect ==
    /\ current_epsilon_' = C24_EpsilonOf(config_', total_steps_')
    /\ AgentCall("select_action") => total_steps_' = total_steps_ + 1
    /\ ~AgentCall("select_action") => total_steps_' = total_steps_
    /\ ~FLess(current_epsilon_', config_'.epsilon_end)
    /\ ~FLess(config_'.epsilon_start, current_epsilon_')

\* C24: the stored epsilon is epsilon_start + (epsilon_end - epsilon_start) *
\* min(1, total_steps / epsilon_decay_steps) of the current total-step count
\* (epsilon_start at 0); the count grows by exactly 1 on each select_action
\* and on nothing else; epsilon lies between epsilon_end and epsilon_start
\* inclusive.
C24_EpsilonFollowsSteps == [][C24_StepEffect]_vars

C25_CounterEffect ==
    /\ optimizer_.step_ = training_steps_
    /\ optimizer_'.step_ = training_steps_'
    /\ IF AgentCall("train") /\ Ready
       THEN training_steps_' = training_steps_ + 1
       ELSE training_steps_' = training_steps_

\* C25: in every reachable agent state the optimizer's step counter equals
\* training_steps_: both are 0 until the first train() above the batch
\* threshold and both grow by exactly 1 on each such train() and on nothing
\* else.
C25_OptimizerStepsAreTrainingSteps == [][C25_CounterEffect]_vars

\* two training steps and a later call of another kind
C25_Witness ==
    /\ training_steps_ = 2
    /\ optimizer_.step_ = 2
    /\ last.op # "train"
    /\ total_steps_ >= 1

C26_AllZero(biases) ==
    \A l \in 1..Len(biases) : \A i \in 1..Len(biases[l]) : biases[l][i] = Zero

\* C26: in every reachable agent state all biases of the target network hold
\* their construction-time value of zero, also after training has changed the
\* main network's biases; after update_target_network the target network has
\* the main network's weights.
C26_TargetBiasesStayZero ==
    /\ C26_AllZero(target_network_.biases_)
    /\ last.op = "update_target_network"
           => target_network_.weights_ = main_network_.weights_

\* the target network was synchronised after training gave the main network
\* non-zero biases in both layers
C26_Witness ==
    /\ last.op = "update_target_network"
    /\ training_steps_ >= 1
    /\ ~C26_AllZero(main_network_.biases_)
    /\ main_network_.biases_[2][1] # Zero
    /\ target_network_.weights_ = main_network_.weights_

\* the step is a push, and it takes the overwrite branch
C27_Overwrites ==
    /\ last'.op = "push" /\ driver'.pushes = driver.pushes + 1
    /\ Size(replay_buffer_) >= replay_buffer_.capacity_

C27_CursorEffect ==
    /\ replay_buffer_'.write_index_ < replay_buffer_'.capacity_
    /\ C27_Overwrites => replay_buffer_.write_index_ < Size(replay_buffer_)
    /\ ~C27_Overwrites => replay_buffer_'.write_index_ = replay_buffer_.write_index_

\* C27: for a ReplayBuffer of any capacity the constructor accepts, 0
\* included, the write cursor is smaller than the capacity in every state, it
\* stays 0 until the first push made at full capacity, and every push that
\* takes the overwrite branch writes to an existing slot (cursor < size()).
C27_CursorInBounds == [][C27_CursorEffect]_vars

\* C28: for every architecture of at least two positive layer sizes, also one
\* whose hidden layer is wider than the hidden layer before it, every index
\* backward uses to read a pre-activation, activation, delta or weight entry
\* lies inside the vector it indexes.
C28_BackwardIndicesInBounds ==
    last.op = "backward" => last.stray_reads = {}

-----------------------------------------------------------------------------
(* env_flappy::FlappyEnv (src/src/env_flappy/env_flappy.cpp).              *)
(*                                                                         *)
(* Units.  With the default Config every length, speed and reward of the   *)
(* environment is a whole multiple of a unit, and the model computes in    *)
(* these units with integers: horizontal lengths in 120ths (pipe_speed *   *)
(* dt, the scroll of one step, is one unit), heights in 1800ths, vertical  *)
(* speeds in 1800ths per second (gravity * dt is 60 units and a speed of   *)
(* 60 units moves the bird one unit of height in one step), rewards in     *)
(* ones.  A gap centre, which the program draws as a float, is taken to    *)
(* the unit of height below it.  The environment only adds, subtracts and  *)
(* compares these quantities; the rounding binary32 applies to the sums is *)
(* not modelled.                                                           *)

\* the longest episode the caller plays
MaxEnvSteps == 180

\* the caller decides whether to flap on every FlapEvery-th step of an episode
\* and does not flap in between
FlapEvery == 9

\* FlappyEnv::kBirdX, 0.20f
kBirdX == 24

\* the seeds the caller constructs and resets the environment with
EnvSeeds == {1, 2}

\* the default Config
Config ==
    [world_height |-> 1800, pipe_width |-> 12, pipe_gap |-> 450,
     pipe_spacing |-> 72, pipe_speed |-> 60, dt |-> [num |-> 1, den |-> 60],
     gravity |-> -3600, flap_impulse |-> 1080, term_vy |-> -5400,
     max_vy |-> 4500, r_pass |-> 1, r_death |-> -1, r_step |-> 0,
     gap_y_min |-> 540, gap_y_max |-> 1260]

\* v * dt, for a v that is a multiple of dt's denominator
TimesDt(v, dt) == (v * dt.num) \div dt.den

\* v * 0.5f
Half(v) == v \div 2

\* std::mt19937 seeded with `seed`, no draw made
Mt19937(seed) == [seed |-> seed, drawn |-> 0]

\* pipes_[i], i counted from 0
PipeAt(env, i) == env.pipes_[i + 1]

\* sample_gap_center: the value returned; the draw advances rng_
SampleGapCenter(env) ==
    LET t == UniformTable(env.rng_.seed)[env.rng_.drawn + 1]
    IN  env.config_.gap_y_min
          + (t * (env.config_.gap_y_max - env.config_.gap_y_min)) \div 1024

\* add_pipe
AddPipe(env, x_after) ==
    [env EXCEPT !.pipes_ = Append(@, [x |-> x_after, gap_y |-> SampleGapCenter(env)]),
                !.rng_.drawn = @ + 1]

\* check_collision
CheckCollision(env) ==
    \/ env.y_ <= 0
    \/ env.y_ >= env.config_.world_height
    \/ /\ env.current_pipe_idx_ < Len(env.pipes_)
       /\ LET pipe == PipeAt(env, env.current_pipe_idx_)
              pipe_left == pipe.x - Half(env.config_.pipe_width)
              pipe_right == pipe.x + Half(env.config_.pipe_width)
              gap_top == pipe.gap_y + Half(env.config_.pipe_gap)
              gap_bottom == pipe.gap_y - Half(env.config_.pipe_gap)
          IN  /\ kBirdX >= pipe_left
              /\ kBirdX <= pipe_right
              /\ (env.y_ <= gap_bottom \/ env.y_ >= gap_top)

PassedPipeUnarmed(env) ==
    /\ env.current_pipe_idx_ < Len(env.pipes_)
    /\ kBirdX > PipeAt(env, env.current_pipe_idx_).x

\* passed_pipe
PassedPipe(env) ==
    IF env.current_pipe_idx_ >= Len(env.pipes_) \/ env.passed_flag_
    THEN FALSE
    ELSE kBirdX > PipeAt(env, env.current_pipe_idx_).x

\* compute_observation; without a current pipe dx_to_pipe is 1.0f
ComputeObservation(env) ==
    IF env.current_pipe_idx_ < Len(env.pipes_)
    THEN LET p == PipeAt(env, env.current_pipe_idx_)
         IN  [y |-> env.y_, vy |-> env.vy_,
              dx_to_pipe |-> p.x - kBirdX, dy_to_gap |-> p.gap_y - env.y_]
    ELSE [y |-> env.y_, vy |-> env.vy_, dx_to_pipe |-> 120, dy_to_gap |-> 0]

\* observe
Observe(env) == ComputeObservation(env)

\* reset, its loop: pipes are added while the last one is left of 3.0f
RECURSIVE ResetPipesAhead(_)
ResetPipesAhead(env) ==
    IF env.pipes_[Len(env.pipes_)].x < 360
    THEN ResetPipesAhead(
             AddPipe(env, env.pipes_[Len(env.pipes_)].x + env.config_.pipe_spacing))
    ELSE env

\* reset: the environment it leaves; the first pipe is added at 1.0f
Reset(env, seed) ==
    ResetPipesAhead(
        AddPipe([env EXCEPT !.rng_ = Mt19937(seed),
                            !.y_ = Half(env.config_.world_height),
                            !.vy_ = 0,
                            !.pipes_ = << >>,
                            !.current_pipe_idx_ = 0,
                            !.passed_flag_ = FALSE,
                            !.done_ = FALSE,
                            !.steps_ = 0],
                120))

\* the constructor: the members' initializers, then reset(seed)
FlappyEnv(seed, config) ==
    Reset([config_ |-> config, rng_ |-> Mt19937(seed), y_ |-> Half(1800), vy_ |-> 0,
           pipes_ |-> << >>, current_pipe_idx_ |-> 0, done_ |-> FALSE,
           passed_flag_ |-> FALSE, steps_ |-> 0],
          seed)

\* step, 1) and 2): the flap, gravity, the clamps and the bird's move
Physics(env, action) ==
    LET flapped == IF action = FLAP THEN env.vy_ + env.config_.flap_impulse ELSE env.vy_
        fallen == flapped + TimesDt(env.config_.gravity, env.config_.dt)
        floored == IF fallen < env.config_.term_vy THEN env.config_.term_vy ELSE fallen
        clamped == IF floored > env.config_.max_vy THEN env.config_.max_vy ELSE floored
    IN  [env EXCEPT !.vy_ = clamped, !.y_ = @ + TimesDt(clamped, env.config_.dt)]

\* step, 3): every pipe moves left by pipe_speed * dt
Scroll(env) ==
    [env EXCEPT !.pipes_ =
        [i \in 1..Len(@) |->
            [@[i] EXCEPT !.x = @ - TimesDt(env.config_.pipe_speed, env.config_.dt)]]]

\* step: how many pipes at the front are fully off-screen on the left
RECURSIVE RemovedCount(_, _)
RemovedCount(env, removed_count) ==
    IF /\ removed_count < Len(env.pipes_)
       /\ env.pipes_[removed_count + 1].x + Half(env.config_.pipe_width) < 0
    THEN RemovedCount(env, removed_count + 1)
    ELSE removed_count

\* step: these pipes are erased and the current-pipe index follows
RemovePipes(env, removed_count) ==
    [env EXCEPT !.pipes_ = SubSeq(@, removed_count + 1, Len(@)),
                !.current_pipe_idx_ =
                    IF @ >= removed_count THEN @ - removed_count ELSE 0]

\* step: the current pipe index moves to the first pipe ahead of or at the
\* bird, re-arming the pass on its way
RECURSIVE UpdateCurrentPipe(_)
UpdateCurrentPipe(env) ==
    IF /\ env.current_pipe_idx_ < Len(env.pipes_)
       /\ PipeAt(env, env.current_pipe_idx_).x + Half(env.config_.pipe_width) < kBirdX
    THEN IF env.current_pipe_idx_ + 1 < Len(env.pipes_)
         THEN UpdateCurrentPipe([env EXCEPT !.passed_flag_ = FALSE,
                                            !.current_pipe_idx_ = @ + 1])
         ELSE [env EXCEPT !.passed_flag_ = FALSE]
    ELSE env

\* step: pipes are added while the furthest one is left of 3.0f
RECURSIVE StepPipesAhead(_, _)
StepPipesAhead(env, furthest_x) ==
    IF furthest_x < 360
    THEN StepPipesAhead(AddPipe(env, furthest_x + env.config_.pipe_spacing),
                        furthest_x + env.config_.pipe_spacing)
    ELSE env

\* step, 1) to 3) on an environment that is not done
Moved(env, action) ==
    LET scrolled == Scroll(Physics([env EXCEPT !.steps_ = @ + 1], action))
        current == UpdateCurrentPipe(RemovePipes(scrolled, RemovedCount(scrolled, 0)))
    IN  StepPipesAhead(current,
                       IF current.pipes_ = << >> THEN 0
                       ELSE current.pipes_[Len(current.pipes_)].x)

\* step, 4) and 5), on the environment as 1) to 3) left it: the environment
\* and the StepResult
Judged(moved) ==
    IF CheckCollision(moved)
    THEN [env |-> [moved EXCEPT !.done_ = TRUE],
          result |-> [observation |-> Observe(moved),
                      reward |-> moved.config_.r_death, done |-> TRUE],
          passed |-> FALSE]
    ELSE IF PassedPipe(moved)
    THEN [env |-> [moved EXCEPT !.passed_flag_ = TRUE],
          result |-> [observation |-> Observe(moved),
                      reward |-> moved.config_.r_step + moved.config_.r_pass,
                      done |-> FALSE],
          passed |-> TRUE]
    ELSE [env |-> moved,
          result |-> [observation |-> Observe(moved),
                      reward |-> moved.config_.r_step, done |-> FALSE],
          passed |-> FALSE]

StepOnDone(env, action) == Judged(Moved(env, action))

\* step: the environment it leaves, the StepResult, and whether r_pass was
\* added.  A done environment is left alone and answers with the base reward.
Step(env, action) ==
    IF env.done_
    THEN [env |-> env,
          result |-> [observation |-> Observe(env),
                      reward |-> env.config_.r_step, done |-> TRUE],
          passed |-> FALSE]
    ELSE Judged(Moved(env, action))

-----------------------------------------------------------------------------
(* A FlappyEnv with the default Config and its caller, who steps it and    *)
(* resets it.  The caller keeps count, for the episode under way, of the   *)
(* pipes step has erased, so that a pipe is known by its ordinal in the    *)
(* episode, and remembers the pipes r_pass was added for.                  *)

\* the ordinal, in the episode, of the current pipe
CurrentPipe(env, erased) == erased + env.current_pipe_idx_ + 1

InitEnv ==
    /\ \E seed \in EnvSeeds : env_ = FlappyEnv(seed, Config)
    /\ driver = [erased |-> 0, rewarded |-> {}]
    /\ last = [op |-> "construct"]
    /\ config_ = Absent
    /\ main_network_ = Absent
    /\ target_network_ = Absent
    /\ replay_buffer_ = Absent
    /\ optimizer_ = Absent
    /\ total_steps_ = 0
    /\ training_steps_ = 0
    /\ current_epsilon_ = Absent

\* env.step(action)
EnvStep(action) ==
    /\ env_.done_ \/ env_.steps_ < MaxEnvSteps
    /\ action = FLAP => env_.steps_ % FlapEvery = 0
    /\ LET stepped == Step(env_, action)
           erased == IF env_.done_ THEN driver.erased
                     ELSE driver.erased
                            + (Len(env_.pipes_) + stepped.env.rng_.drawn
                                 - env_.rng_.drawn - Len(stepped.env.pipes_))
       IN  /\ env_' = stepped.env
           /\ driver' = [erased |-> erased,
                         rewarded |-> IF stepped.passed
                                      THEN driver.rewarded
                                             \cup {CurrentPipe(stepped.env, erased)}
                                      ELSE driver.rewarded]
           /\ last' = [op |-> "step", action |-> action, result |-> stepped.result,
                       passed |-> stepped.passed,
                       pipe |-> CurrentPipe(stepped.env, erased)]
    /\ UNCHANGED << agent_vars, replay_buffer_ >>

\* env.reset(seed)
EnvReset(seed) ==
    /\ env_' = Reset(env_, seed)
    /\ driver' = [erased |-> 0, rewarded |-> {}]
    /\ last' = [op |-> "reset", seed |-> seed, observation |-> Observe(env_')]
    /\ UNCHANGED << agent_vars, replay_buffer_ >>

NextEnv ==
    \/ \E action \in {FLAP, NO_FLAP} : EnvStep(action)
    \/ \E seed \in EnvSeeds : EnvReset(seed)

SpecEnv == InitEnv /\ [][NextEnv]_vars

-----------------------------------------------------------------------------
(* Claims about the FlappyEnv.                                             *)

\* the step is a call of `op` on the environment
EnvCall(op) == last'.op = op

\* the last call was a step that returned done = true
ReturnedDone == last.op = "step" /\ last.result.done

C29_StepEffect ==
    (EnvCall("step") /\ ReturnedDone) =>
        /\ last'.result.done
        /\ env_'.y_ = env_.y_
        /\ env_'.vy_ = env_.vy_
        /\ env_'.pipes_ = env_.pipes_
        /\ env_'.current_pipe_idx_ = env_.current_pipe_idx_
        /\ env_'.steps_ = env_.steps_

C29_ResetEffect ==
    EnvCall("reset") => (~env_'.done_ /\ env_'.steps_ = 0)

\* C29: done is absorbing until reset.  A step that follows a step that
\* returned done = true returns done = true and leaves the bird's position and
\* velocity, the pipes, the current-pipe index and the step count as they
\* were (so that, step by step, every step before the next reset does); reset
\* leaves the environment not done with a step count of 0.
C29_DoneIsAbsorbing == [][C29_StepEffect /\ C29_ResetEffect]_vars

\* a step was made on an environment that was done: it returned done = true
\* without the reward of a collision
C29_Witness ==
    /\ last.op = "step" /\ last.result.done
    /\ last.result.reward = env_.config_.r_step
    /\ env_.steps_ >= 1

\* r_pass is added at most once for a pipe of the episode
C30_OncePerPipe ==
    (EnvCall("step") /\ last'.passed) => last'.pipe \notin driver.rewarded

\* the pass is re-armed only when a different pipe becomes current
C30_ReArmed ==
    (EnvCall("step") /\ env_.passed_flag_ /\ ~env_'.passed_flag_) =>
        CurrentPipe(env_', driver'.erased) # CurrentPipe(env_, driver.erased)

\* a step that returns done = true does not add r_pass
C30_NoPassWhenDone ==
    (EnvCall("step") /\ last'.result.done) => ~last'.passed

\* a step that returns done = true returns r_death
C30_DoneReward ==
    (EnvCall("step") /\ last'.result.done) =>
        last'.result.reward = env_.config_.r_death

\* the step that ends the episode returns r_death, a step on an environment
\* that is done already returns r_step
C30_DoneRewardByCase ==
    (EnvCall("step") /\ last'.result.done) =>
        last'.result.reward = IF env_.done_ THEN env_.config_.r_step
                              ELSE env_.config_.r_death

\* C30, as stated: with the default Config r_pass is added at most once for
\* any pipe of an episode, the pass being re-armed only when a different pipe
\* becomes current, and a step that returns done = true adds no r_pass and
\* returns exactly r_death.
C30_PassOnceAndDeathOnDone ==
    [][C30_OncePerPipe /\ C30_ReArmed /\ C30_NoPassWhenDone /\ C30_DoneReward]_vars

\* C30, amended: with the default Config r_pass is added at most once for any
\* pipe of an episode, the pass being re-armed only when a different pipe
\* becomes current, and a step that returns done = true adds no r_pass; its
\* reward is exactly r_death when it is the step that detects the collision
\* and r_step when the environment was done before it.
C30_PassOnceAndDeathOnCollision ==
    [][C30_OncePerPipe /\ C30_ReArmed /\ C30_NoPassWhenDone /\ C30_DoneRewardByCase]_vars

\* an episode in which r_pass was added for the first pipe and for the second
\* has ended in a collision
C30_Witness ==
    /\ last.op = "step" /\ last.result.done
    /\ last.result.reward = env_.config_.r_death
    /\ driver.rewarded = {1, 2}

====
